---------------------------- MODULE Spec2Model ----------------------------
(***************************************************************************)
(* Model of datasheet_to_markdown: the content classifier                  *)
(* (core/classifier.py), the confidence scorer (core/scorer.py), the table *)
(* post-processor (extractors/table.py) and the quality reporter           *)
(* (quality/reporter.py).                                                  *)
(*                                                                         *)
(* Text is a sequence of characters, a character a one-element string      *)
(* (non-ASCII characters are written by code point, "U+2022").  Python     *)
(* floats are exact rationals <<numerator, denominator>> in lowest terms.  *)
(* Every operation is an action that draws its arguments from bounded      *)
(* sets, records them in `call` and its return value in `ret`.             *)
(***************************************************************************)
EXTENDS Integers, Sequences, FiniteSets, TLC

VARIABLES
    threshold,          \* ConfidenceScorer.threshold
    page_height,        \* ContentBlockClassifier.page_height
    tables_checked,     \* QualityReporter.tables_checked
    total_tables,       \* QualityReporter.total_tables
    total_confidence,   \* QualityReporter.total_confidence
    pc,                 \* where the convert command of the CLI stands
    converter,          \* the DatasheetConverter the command constructed
    pdf_parser,         \* DatasheetConverter.pdf_parser
    page_number,        \* the loop variable page_num of DatasheetConverter.convert
    content_parts,      \* DocumentBuilder.content_parts
    exception,          \* an exception is propagating out of convert()
    call,               \* the operation last invoked, with its arguments
    ret                 \* what that operation returned

\* the state of a run of the convert command
command == <<pc, converter, pdf_parser, page_number, content_parts, exception>>

vars == <<threshold, page_height, tables_checked, total_tables,
          total_confidence, command, call, ret>>

-----------------------------------------------------------------------------
(* Characters and strings                                                  *)

Digits == {"0", "1", "2", "3", "4", "5", "6", "7", "8", "9"}

UpperCase == {"A", "B", "C", "D", "E", "F", "G", "H", "I", "J", "K", "L", "M",
              "N", "O", "P", "Q", "R", "S", "T", "U", "V", "W", "X", "Y", "Z"}

LowerCase == {"a", "b", "c", "d", "e", "f", "g", "h", "i", "j", "k", "l", "m",
              "n", "o", "p", "q", "r", "s", "t", "u", "v", "w", "x", "y", "z"}

\* str.isspace / the regex class \s
WhiteSpace == {" ", "\t", "\n", "\r"}

\* U+2022 bullet, U+00B7 middle dot, U+9875 the CJK word for "page"
Punctuation == {".", ")", "(", "-", "*", "<", ">", "{", "}", "'", ":", ",",
                "U+2022", "U+00B7", "U+9875"}

Alphabet == Digits \cup UpperCase \cup LowerCase \cup WhiteSpace \cup Punctuation

\* the Python value None
None == "None"

Min(a, b) == IF a <= b THEN a ELSE b

Max(a, b) == IF a >= b THEN a ELSE b

\* s[i:] of Python, i counted from 1
Drop(s, i) == SubSeq(s, i, Len(s))

\* str.strip(): leading and trailing whitespace removed
RECURSIVE LStrip(_)
LStrip(s) ==
    IF s # <<>> /\ Head(s) \in WhiteSpace THEN LStrip(Tail(s)) ELSE s

RECURSIVE RStrip(_)
RStrip(s) ==
    IF s # <<>> /\ s[Len(s)] \in WhiteSpace
    THEN RStrip(SubSeq(s, 1, Len(s) - 1))
    ELSE s

Strip(s) == RStrip(LStrip(s))

\* `sub in s`
Contains(s, sub) ==
    \E i \in 1..(Len(s) - Len(sub) + 1) : SubSeq(s, i, i + Len(sub) - 1) = sub

\* s.endswith(c) for a one-character c
EndsWith(s, c) == s # <<>> /\ s[Len(s)] = c

\* str.replace('\n', ' ').replace('\r', ' ')
ReplaceNewlines(s) == [i \in DOMAIN s |-> IF s[i] \in {"\n", "\r"} THEN " " ELSE s[i]]

\* the length of the leading run of non-whitespace characters
RECURSIVE WordLen(_)
WordLen(s) == IF s = <<>> \/ Head(s) \in WhiteSpace THEN 0 ELSE 1 + WordLen(Tail(s))

\* str.split(): the maximal runs of non-whitespace characters
RECURSIVE Split(_)
Split(s) ==
    LET t == LStrip(s)
        n == WordLen(t)
    IN  IF t = <<>> THEN <<>> ELSE <<SubSeq(t, 1, n)>> \o Split(Drop(t, n + 1))

\* sep.join(parts)
RECURSIVE Join(_, _)
Join(parts, sep) ==
    IF parts = <<>> THEN <<>>
    ELSE IF Len(parts) = 1 THEN parts[1]
    ELSE parts[1] \o sep \o Join(Tail(parts), sep)

-----------------------------------------------------------------------------
(* Floats as exact rationals                                               *)

RECURSIVE GCD(_, _)
GCD(a, b) == IF b = 0 THEN a ELSE GCD(b, a % b)

Abs(a) == IF a < 0 THEN -a ELSE a

\* n / d in lowest terms, d > 0
Frac(n, d) ==
    LET g == GCD(Abs(n), d)
    IN  <<n \div g, d \div g>>

Num(i) == <<i, 1>>

RAdd(p, q) == Frac(p[1] * q[2] + q[1] * p[2], p[2] * q[2])

RSub(p, q) == Frac(p[1] * q[2] - q[1] * p[2], p[2] * q[2])

RMul(p, q) == Frac(p[1] * q[1], p[2] * q[2])

\* p / q for q > 0
RDiv(p, q) == Frac(p[1] * q[2], p[2] * q[1])

RLess(p, q) == p[1] * q[2] < q[1] * p[2]

-----------------------------------------------------------------------------
(* Floats bit for bit, where sums are accumulated: IEEE 754 binary64       *)

\* the significand of a Python float, in binary digits
MantissaBits == 53

\* arithmetic on long numbers goes by limbs of this many binary digits
LimbBits == 16

\* a natural number below 2^w in w binary digits, most significant first
FixedBits(n, w) == [i \in 1..w |-> (n \div 2^(w - i)) % 2]

\* a natural number in binary digits without leading zeros; <<>> is 0
RECURSIVE Bits(_)
Bits(n) == IF n = 0 THEN <<>> ELSE Append(Bits(n \div 2), n % 2)

\* the number that at most LimbBits digits write
RECURSIVE Value(_)
Value(a) == IF a = <<>> THEN 0 ELSE 2 * Value(SubSeq(a, 1, Len(a) - 1)) + a[Len(a)]

Zeros(k) == [i \in 1..k |-> 0]

\* the digits without leading zeros
Normal(a) ==
    LET ones == { i \in DOMAIN a : a[i] = 1 }
    IN  IF ones = {} THEN <<>>
        ELSE SubSeq(a, CHOOSE i \in ones : \A j \in ones : i <= j, Len(a))

\* the digits cut into limbs, most significant first
Limbs(a) ==
    LET b == Zeros((LimbBits - (Len(a) % LimbBits)) % LimbBits) \o a
    IN  [i \in 1..(Len(b) \div LimbBits) |->
             Value(SubSeq(b, (i - 1) * LimbBits + 1, i * LimbBits))]

\* the digits of a number given in limbs
Unlimbs(l) ==
    [j \in 1..(Len(l) * LimbBits) |->
         FixedBits(l[((j - 1) \div LimbBits) + 1], LimbBits)[((j - 1) % LimbBits) + 1]]

\* the limbs of a + b + carry, for a and b of one length
RECURSIVE AddLimbs(_, _, _)
AddLimbs(a, b, carry) ==
    IF a = <<>> THEN <<carry>>
    ELSE LET n == Len(a)
             sum == a[n] + b[n] + carry
         IN  Append(AddLimbs(SubSeq(a, 1, n - 1), SubSeq(b, 1, n - 1),
                             sum \div 2^LimbBits),
                    sum % 2^LimbBits)

\* a + b on digits
BAdd(a, b) ==
    LET n == Max(Len(a), Len(b))
    IN  Normal(Unlimbs(AddLimbs(Limbs(Zeros(n - Len(a)) \o a),
                                Limbs(Zeros(n - Len(b)) \o b), 0)))

\* <<quotient limbs, remainder>> of the number (rem, a) divided by n, for
\* rem < n < 2^15
RECURSIVE DivLimbs(_, _, _)
DivLimbs(a, n, rem) ==
    IF a = <<>> THEN << <<>>, rem >>
    ELSE LET cur == rem * 2^LimbBits + Head(a)
             rest == DivLimbs(Tail(a), n, cur % n)
         IN  << <<cur \div n>> \o rest[1], rest[2] >>

\* <<quotient digits, remainder>> of the number the digits write, divided by n
DivDigits(a, n) ==
    LET res == DivLimbs(Limbs(a), n, 0)
    IN  << Unlimbs(res[1]), res[2] >>

\* the float 0.0
FloatZero == [m |-> <<>>, e |-> 0]

\* the float nearest to digits * 2^e, or to a little more than that when
\* `sticky`; ties go to the even significand.  A float is its significand m
\* of MantissaBits digits and the exponent e of its last digit.
RoundToFloat(digits, e, sticky) ==
    LET a == Normal(digits)
        drop == Len(a) - MantissaBits
    IN  IF a = <<>> THEN FloatZero
        ELSE IF drop <= 0 THEN [m |-> a \o Zeros(-drop), e |-> e + drop]
        ELSE LET top == SubSeq(a, 1, MantissaBits)
                 tail == sticky \/ \E i \in (MantissaBits + 2)..Len(a) : a[i] = 1
                 up == a[MantissaBits + 1] = 1 /\ (tail \/ top[MantissaBits] = 1)
                 rounded == IF up THEN BAdd(top, <<1>>) ELSE top
             IN  IF Len(rounded) > MantissaBits
                 THEN [m |-> SubSeq(rounded, 1, MantissaBits), e |-> e + drop + 1]
                 ELSE [m |-> rounded, e |-> e + drop]

\* the float a non-negative rational of the model stands for: the nearest one
Float(q) ==
    LET k == MantissaBits + 2 + Len(Bits(q[2]))
        res == DivDigits(Bits(q[1]) \o Zeros(k), q[2])
    IN  RoundToFloat(res[1], -k, res[2] # 0)

\* x + y of two non-negative floats
FloatAdd(x, y) ==
    IF x.m = <<>> THEN y
    ELSE IF y.m = <<>> THEN x
    ELSE LET e == Min(x.e, y.e)
         IN  RoundToFloat(BAdd(x.m \o Zeros(x.e - e), y.m \o Zeros(y.e - e)), e, FALSE)

\* x / n of a non-negative float and a positive int
FloatDiv(x, n) ==
    LET k == MantissaBits + 2 + Len(Bits(n))
        res == DivDigits(x.m \o Zeros(k), n)
    IN  RoundToFloat(res[1], x.e - k, res[2] # 0)

-----------------------------------------------------------------------------
(* core/scorer.py: ConfidenceScorer                                        *)

\* _is_truncated: "...", "(continued)", "(Continued)" inside, or a final < or >
indicators ==
    << <<".", ".", ".">>,
       <<"(", "c", "o", "n", "t", "i", "n", "u", "e", "d", ")">>,
       <<"(", "C", "o", "n", "t", "i", "n", "u", "e", "d", ")">> >>

_is_truncated(text) ==
    \/ \E k \in DOMAIN indicators : Contains(text, indicators[k])
    \/ EndsWith(text, "<")
    \/ EndsWith(text, ">")

\* _score_cell: 0 for an empty cell, 20 for truncated text, 100 otherwise
_score_cell(cell) ==
    IF cell = <<>> \/ Strip(cell) = <<>> THEN 0
    ELSE IF _is_truncated(cell) THEN 20
    ELSE 100

\* the cells whose score is at most the threshold
RECURSIVE UncertainFrom_at_most(_, _, _)
UncertainFrom_at_most(table_data, r, thr) ==
    IF r > Len(table_data) THEN <<>>
    ELSE LET row == table_data[r]
             hits == SelectSeq([c \in 1..Len(row) |-> <<r - 1, c - 1>>],
                               LAMBDA rc : _score_cell(row[rc[2] + 1]) <= thr)
         IN  hits \o UncertainFrom_at_most(table_data, r + 1, thr)

\* the uncertain cells numbered from 1, as enumerate(..., 1) would
RECURSIVE UncertainFrom_one_based(_, _, _)
UncertainFrom_one_based(table_data, r, thr) ==
    IF r > Len(table_data) THEN <<>>
    ELSE LET row == table_data[r]
             hits == SelectSeq([c \in 1..Len(row) |-> <<r, c>>],
                               LAMBDA rc : _score_cell(row[rc[2]]) < thr)
         IN  hits \o UncertainFrom_one_based(table_data, r + 1, thr)

\* the (row_idx, col_idx) of the rows from `r` on, row by row, 0-based as in
\* enumerate(), whose score is below the threshold
RECURSIVE UncertainFrom(_, _, _)
UncertainFrom(table_data, r, thr) ==
    IF r > Len(table_data) THEN <<>>
    ELSE LET row == table_data[r]
             hits == SelectSeq([c \in 1..Len(row) |-> <<r - 1, c - 1>>],
                               LAMBDA rc : _score_cell(row[rc[2] + 1]) < thr)
         IN  hits \o UncertainFrom(table_data, r + 1, thr)

\* flat_scores: the scores of all cells, row by row
RECURSIVE Flatten(_)
Flatten(rows) == IF rows = <<>> THEN <<>> ELSE Head(rows) \o Flatten(Tail(rows))

RECURSIVE SumSeq(_)
SumSeq(s) == IF s = <<>> THEN 0 ELSE Head(s) + SumSeq(Tail(s))

\* score_table with the flask added to the mean of the cells, not averaged
score_table_flask_added(table_data, fl, thr) ==
    IF table_data = <<>> \/ table_data[1] = <<>>
    THEN [overall_confidence |-> Num(0),
          cell_confidence    |-> <<>>,
          uncertain_cells    |-> <<>>]
    ELSE LET cell_confidence ==
                 [r \in 1..Len(table_data) |->
                     [c \in 1..Len(table_data[r]) |-> _score_cell(table_data[r][c])]]
             flat_scores == Flatten(cell_confidence)
             overall == IF flat_scores # <<>>
                        THEN RDiv(Num(SumSeq(flat_scores)), Num(Len(flat_scores)))
                        ELSE Num(0)
         IN  [overall_confidence |-> RAdd(overall, fl),
              cell_confidence    |-> cell_confidence,
              uncertain_cells    |-> UncertainFrom(table_data, 1, thr)]

\* score_table that tests only `not table_data`, not the first row
score_table_first_row_unchecked(table_data, fl, thr) ==
    IF table_data = <<>>
    THEN [overall_confidence |-> Num(0),
          cell_confidence    |-> <<>>,
          uncertain_cells    |-> <<>>]
    ELSE LET cell_confidence ==
                 [r \in 1..Len(table_data) |->
                     [c \in 1..Len(table_data[r]) |-> _score_cell(table_data[r][c])]]
             flat_scores == Flatten(cell_confidence)
             overall == IF flat_scores # <<>>
                        THEN RDiv(Num(SumSeq(flat_scores)), Num(Len(flat_scores)))
                        ELSE Num(0)
         IN  [overall_confidence |-> RDiv(RAdd(overall, fl), Num(2)),
              cell_confidence    |-> cell_confidence,
              uncertain_cells    |-> UncertainFrom(table_data, 1, thr)]

score_table(table_data, fl, thr) ==
    IF table_data = <<>> \/ table_data[1] = <<>>
    THEN [overall_confidence |-> Num(0),
          cell_confidence    |-> <<>>,
          uncertain_cells    |-> <<>>]
    ELSE LET cell_confidence ==
                 [r \in 1..Len(table_data) |->
                     [c \in 1..Len(table_data[r]) |-> _score_cell(table_data[r][c])]]
             flat_scores == Flatten(cell_confidence)
             overall == IF flat_scores # <<>>
                        THEN RDiv(Num(SumSeq(flat_scores)), Num(Len(flat_scores)))
                        ELSE Num(0)
         IN  [overall_confidence |-> RDiv(RAdd(overall, fl), Num(2)),
              cell_confidence    |-> cell_confidence,
              uncertain_cells    |-> UncertainFrom(table_data, 1, thr)]

\* dict.get(key, default)
DictGet(d, key, default) == IF key \in DOMAIN d THEN d[key] ELSE default

\* needs_manual_check with the boundary values taken as triggers
needs_manual_check_inclusive(complexity, fl, uncertain_ratio) ==
    \/ DictGet(complexity, "rows", 0) >= 20 \/ DictGet(complexity, "cols", 0) >= 6
    \/ ~RLess(Num(80), fl)
    \/ ~RLess(uncertain_ratio, <<1, 2>>)

needs_manual_check(complexity, fl, uncertain_ratio) ==
    IF DictGet(complexity, "rows", 0) > 20 \/ DictGet(complexity, "cols", 0) > 6
    THEN TRUE
    ELSE IF RLess(fl, Num(80)) THEN TRUE
    ELSE IF RLess(<<1, 2>>, uncertain_ratio) THEN TRUE
    ELSE FALSE

-----------------------------------------------------------------------------
(* Inputs of the scorer                                                    *)

\* rows + cells of the largest grid handed to score_table
MaxGridSize == 4

\* cell texts: empty, blank, plain, each truncation indicator and a near miss
ScoreCells ==
    { <<>>, <<" ">>, <<"a">>, <<"a", ".", ".", ".">>, <<"<">>, <<"a", ">">>,
      <<"a", ">", " ">>,
      <<"(", "c", "o", "n", "t", "i", "n", "u", "e", "d", ")">>,
      <<"(", "C", "o", "n", "t", "i", "n", "u", "e", "d", ")">>,
      <<"(", "C", "O", "N", "T", "I", "N", "U", "E", "D", ")">> }

\* all lists of rows over `cells`, ragged ones included, with rows + cells <= size
RECURSIVE GridsUpTo(_, _)
GridsUpTo(cells, size) ==
    {<<>>} \cup
    UNION { UNION { { <<row>> \o g : g \in GridsUpTo(cells, size - 1 - n) }
                    : row \in [1..n -> cells] }
            : n \in 0..(size - 1) }

Thresholds == {0, 20, 50, 100}

\* the accuracy handed to score_table
ScoreFlasks == {Num(0), Num(90), Num(100)}

\* the accuracy handed to needs_manual_check
Flasks == {Num(0), Num(79), Num(80), Num(90), Num(100)}

Complexities ==
    [rows : {0, 1, 5, 20, 21, 25}, cols : {0, 1, 3, 6, 7}]
        \cup [rows : {20, 21}] \cup [cols : {6, 7}]

UncertainRatios == {Num(0), <<1, 10>>, <<1, 2>>, <<3, 5>>, Num(1)}

-----------------------------------------------------------------------------
(* core/scorer.py: analyze_table_complexity                                *)

\* the cells that are empty after trimming
EmptyCount(table_data) ==
    Len(SelectSeq(Flatten(table_data), LAMBDA cell : cell = <<>> \/ Strip(cell) = <<>>))

RMin(p, q) == IF RLess(q, p) THEN q ELSE p

analyze_table_complexity(table_data) ==
    IF table_data = <<>>
    THEN [rows |-> 0, cols |-> 0, has_empty |-> FALSE, complexity_score |-> Num(0)]
    ELSE LET rows == Len(table_data)
             cols == Len(table_data[1])
             empty_count == EmptyCount(table_data)
             total_cells == rows * cols
             size_complexity == RMin(RDiv(Num(rows * cols), Num(200)), Num(1))
             empty_complexity ==
                 IF total_cells > 0
                 THEN RMin(RDiv(Num(empty_count), Num(total_cells)), Num(1))
                 ELSE Num(0)
         IN  [rows |-> rows, cols |-> cols, has_empty |-> empty_count > 0,
              empty_count |-> empty_count,
              complexity_score |->
                  RDiv(RAdd(size_complexity, empty_complexity), Num(2))]

-----------------------------------------------------------------------------
(* Regular expressions, as re.match applies them                           *)

\* one element of a pattern: a character class and how often it repeats
\* ("1": once, "+": once or more, "*": any number of times)
Item(cls, q) == [cls |-> cls, q |-> q]

\* the regex class . : any character but the line break
AnyChar == Alphabet \ {"\n"}

\* whether the items from the k-th on match s from position i on; with
\* `dollar` the match must end at the end of s or before a final line break
RECURSIVE MatchItems(_, _, _, _, _)
MatchItems(items, dollar, s, k, i) ==
    IF k > Len(items)
    THEN \/ ~dollar
         \/ i = Len(s) + 1
         \/ i = Len(s) /\ s[i] = "\n"
    ELSE LET it == items[k]
         IN  IF it.q = "1"
             THEN /\ i <= Len(s)
                  /\ s[i] \in it.cls
                  /\ MatchItems(items, dollar, s, k + 1, i + 1)
             ELSE \E n \in (IF it.q = "+" THEN 1 ELSE 0)..(Len(s) - i + 1) :
                      /\ \A j \in i..(i + n - 1) : s[j] \in it.cls
                      /\ MatchItems(items, dollar, s, k + 1, i + n)

\* re.match(pattern, s): the pattern matches a prefix of s (all of s with $)
ReMatch(pattern, s) == MatchItems(pattern.items, pattern.dollar, s, 1, 1)

-----------------------------------------------------------------------------
(* core/classifier.py: ContentBlockClassifier                              *)

\* SECTION_PATTERNS with a level-1 pattern ^(\d+)\.\s*(.+)$ tried first
SECTION_PATTERNS_loose_first ==
    << [items |-> << Item(Digits, "+"), Item({"."}, "1"), Item(WhiteSpace, "*"),
                     Item(AnyChar, "+") >>,
        dollar |-> TRUE, level |-> 1],
       [items |-> << Item(Digits, "+"), Item({"."}, "1"), Item(Digits, "+"),
                     Item({"."}, "1"), Item(Digits, "+"), Item(WhiteSpace, "+"),
                     Item(AnyChar, "+") >>,
        dollar |-> TRUE, level |-> 3],
       [items |-> << Item(Digits, "+"), Item({"."}, "1"), Item(Digits, "+"),
                     Item({"."}, "1"), Item(WhiteSpace, "+"), Item(AnyChar, "+") >>,
        dollar |-> TRUE, level |-> 2],
       [items |-> << Item(UpperCase, "1"),
                     Item(UpperCase \cup WhiteSpace \cup Digits, "+") >>,
        dollar |-> TRUE, level |-> 2] >>

\* SECTION_PATTERNS, in the order of the list, each with its level
SECTION_PATTERNS ==
    << \* ^(\d+)\.(\d+)\.(\d+)\s+(.+)$
       [items |-> << Item(Digits, "+"), Item({"."}, "1"), Item(Digits, "+"),
                     Item({"."}, "1"), Item(Digits, "+"), Item(WhiteSpace, "+"),
                     Item(AnyChar, "+") >>,
        dollar |-> TRUE, level |-> 3],
       \* ^(\d+)\.(\d+)\.\s+(.+)$
       [items |-> << Item(Digits, "+"), Item({"."}, "1"), Item(Digits, "+"),
                     Item({"."}, "1"), Item(WhiteSpace, "+"), Item(AnyChar, "+") >>,
        dollar |-> TRUE, level |-> 2],
       \* ^(\d+)\.\s+(.+)$
       [items |-> << Item(Digits, "+"), Item({"."}, "1"), Item(WhiteSpace, "+"),
                     Item(AnyChar, "+") >>,
        dollar |-> TRUE, level |-> 1],
       \* ^([A-Z][A-Z\s\d]+)$
       [items |-> << Item(UpperCase, "1"),
                     Item(UpperCase \cup WhiteSpace \cup Digits, "+") >>,
        dollar |-> TRUE, level |-> 2] >>

\* the section patterns that match the stripped text, by position in the list
MatchingPatterns(text) ==
    { k \in DOMAIN SECTION_PATTERNS : ReMatch(SECTION_PATTERNS[k], Strip(text)) }

\* _extract_heading_level: the level of the first pattern that matches, else 2
_extract_heading_level(text) ==
    LET matching == MatchingPatterns(text)
    IN  IF matching # {}
        THEN SECTION_PATTERNS[CHOOSE k \in matching : \A j \in matching : k <= j].level
        ELSE 2

\* sum(w.get("size", 12) for w in words)
RECURSIVE SizeSum(_)
SizeSum(words) ==
    IF words = <<>> THEN 0
    ELSE DictGet(Head(words), "size", 12) + SizeSum(Tail(words))

\* _is_heading with the font rule from 14 points on
_is_heading_from_14(text, words) ==
    \/ MatchingPatterns(text) # {}
    \/ /\ words # <<>>
       /\ "size" \in DOMAIN words[1]
       /\ ~RLess(RDiv(Num(SizeSum(words)), Num(Len(words))), Num(14))

\* _is_heading: a section pattern matches, or the mean font size exceeds 14
_is_heading(text, words) ==
    \/ MatchingPatterns(text) # {}
    \/ /\ words # <<>>
       /\ "size" \in DOMAIN words[1]
       /\ RLess(Num(14), RDiv(Num(SizeSum(words)), Num(Len(words))))

unordered_markers == {"U+2022", "-", "*", "U+00B7"}

\* ^\d+[\.\)]\s+
OrderedListPattern ==
    [items |-> << Item(Digits, "+"), Item({".", ")"}, "1"), Item(WhiteSpace, "+") >>,
     dollar |-> FALSE]

_is_list(text) ==
    LET stripped == Strip(text)
    IN  \/ stripped # <<>> /\ stripped[1] \in unordered_markers
        \/ ReMatch(OrderedListPattern, stripped)

\* _classify_text_type with the list rule tried before the heading rule
_classify_text_type_list_first(text, words) ==
    IF _is_list(text)
    THEN [type |-> "list", metadata |-> [ordered |-> text[1] \in Digits]]
    ELSE IF _is_heading(text, words)
    THEN [type |-> "heading", metadata |-> [confidence |-> Frac(95, 100)]]
    ELSE [type |-> "paragraph", metadata |-> <<>>]

\* _classify_text_type: (ContentType, metadata); an empty dict is <<>>
_classify_text_type(text, words) ==
    IF _is_heading(text, words)
    THEN [type |-> "heading", metadata |-> [confidence |-> Frac(95, 100)]]
    ELSE IF _is_list(text)
    THEN [type |-> "list", metadata |-> [ordered |-> text[1] \in Digits]]
    ELSE [type |-> "paragraph", metadata |-> <<>>]

\* ^\s*\d+\s*$
PageNumberPattern ==
    [items |-> << Item(WhiteSpace, "*"), Item(Digits, "+"), Item(WhiteSpace, "*") >>,
     dollar |-> TRUE]

\* .*(page|U+9875)\s*\d+.* with re.I: one pattern for each alternative
PageWordPatterns ==
    { [items |-> << Item(AnyChar, "*"), Item({"p", "P"}, "1"), Item({"a", "A"}, "1"),
                    Item({"g", "G"}, "1"), Item({"e", "E"}, "1"),
                    Item(WhiteSpace, "*"), Item(Digits, "+"), Item(AnyChar, "*") >>,
       dollar |-> FALSE],
      [items |-> << Item(AnyChar, "*"), Item({"U+9875"}, "1"),
                    Item(WhiteSpace, "*"), Item(Digits, "+"), Item(AnyChar, "*") >>,
       dollar |-> FALSE] }

\* ^\s*-\s*\d+\s*-\s*$
DashNumberPattern ==
    [items |-> << Item(WhiteSpace, "*"), Item({"-"}, "1"), Item(WhiteSpace, "*"),
                  Item(Digits, "+"), Item(WhiteSpace, "*"), Item({"-"}, "1"),
                  Item(WhiteSpace, "*") >>,
     dollar |-> TRUE]

\* str.isupper(): a cased character, and no lower-case one
IsUpper(text) ==
    /\ \E i \in DOMAIN text : text[i] \in UpperCase
    /\ \A i \in DOMAIN text : text[i] \notin LowerCase

\* str(block.content): the text itself, or the repr of an image's dict
ContentStr(block) ==
    IF block.type = "image"
    THEN <<"{", "'", "y", "0", "'", ":", " ", "1", "}">>
    ELSE block.content

\* _is_footer with the heading exemption applied to every content rule
_is_footer_headings_exempt(block, height) ==
    LET y0 == block.bbox[2]
        text == Strip(ContentStr(block))
    IN  /\ 10 * y0 > 9 * height \/ 10 * y0 < height
        /\ block.type # "heading"
        /\ \/ ReMatch(PageNumberPattern, text)
           \/ \E pattern \in PageWordPatterns : ReMatch(pattern, text)
           \/ ReMatch(DashNumberPattern, text)
           \/ Len(text) < 50 /\ IsUpper(text)

\* _is_footer: y0 > page_height * 0.9 or y0 < page_height * 0.1, and a
\* content rule (the products are exact for the page heights used)
_is_footer(block, height) ==
    LET y0 == block.bbox[2]
        text == Strip(ContentStr(block))
    IN  /\ 10 * y0 > 9 * height \/ 10 * y0 < height
        /\ \/ ReMatch(PageNumberPattern, text)
           \/ \E pattern \in PageWordPatterns : ReMatch(pattern, text)
           \/ ReMatch(DashNumberPattern, text)
           \/ Len(text) < 50 /\ IsUpper(text) /\ ~(block.type = "heading")

\* sorted(items, key=...): stable, ascending; the items are <<key, value>>
InsertSorted(sorted, x) ==
    LET pos == Cardinality({ i \in DOMAIN sorted : sorted[i][1] <= x[1] })
    IN  SubSeq(sorted, 1, pos) \o <<x>> \o Drop(sorted, pos + 1)

RECURSIVE StableSort(_)
StableSort(items) ==
    IF items = <<>> THEN <<>>
    ELSE InsertSorted(StableSort(SubSeq(items, 1, Len(items) - 1)), items[Len(items)])

\* the values of a list of <<key, value>>
Values(items) == [i \in DOMAIN items |-> items[i][2]]

\* sorted(words, key=lambda w: w["top"])
SortByTop(words) == Values(StableSort([i \in DOMAIN words |-> <<words[i].top, words[i]>>]))

\* sorted(current_line, key=lambda w: w["x0"])
SortByX0(words) == Values(StableSort([i \in DOMAIN words |-> <<words[i].x0, words[i]>>]))

\* the loop with the top of the last word added as the line's reference
RECURSIVE GroupLoop_running_anchor(_, _, _, _)
GroupLoop_running_anchor(rest, current_line, current_y, lines) ==
    IF rest = <<>>
    THEN IF current_line # <<>> THEN Append(lines, SortByX0(current_line)) ELSE lines
    ELSE LET word == Head(rest)
         IN  IF Abs(word.top - current_y) <= 5
             THEN GroupLoop_running_anchor(Tail(rest), Append(current_line, word),
                                           word.top, lines)
             ELSE GroupLoop_running_anchor(Tail(rest), <<word>>, word.top,
                                           Append(lines, SortByX0(current_line)))

\* the loop of _group_words_to_lines over the words left, with the line being
\* built, the top of its first word, and the lines finished
RECURSIVE GroupLoop(_, _, _, _)
GroupLoop(rest, current_line, current_y, lines) ==
    IF rest = <<>>
    THEN IF current_line # <<>> THEN Append(lines, SortByX0(current_line)) ELSE lines
    ELSE LET word == Head(rest)
         IN  IF Abs(word.top - current_y) <= 5
             THEN GroupLoop(Tail(rest), Append(current_line, word), current_y, lines)
             ELSE GroupLoop(Tail(rest), <<word>>, word.top,
                            Append(lines, SortByX0(current_line)))

\* the grouping over the words as they come, without sorted(words, key=top)
_group_words_to_lines_unsorted(words) ==
    IF words = <<>> THEN <<>>
    ELSE GroupLoop(Tail(words), <<words[1]>>, words[1].top, <<>>)

_group_words_to_lines(words) ==
    IF words = <<>> THEN <<>>
    ELSE LET words_sorted == SortByTop(words)
         IN  GroupLoop(Tail(words_sorted), <<words_sorted[1]>>, words_sorted[1].top, <<>>)

\* min / max of a field over the words of a line
MinOf(line_words, f) ==
    CHOOSE v \in { line_words[i][f] : i \in DOMAIN line_words } :
        \A i \in DOMAIN line_words : v <= line_words[i][f]

MaxOf(line_words, f) ==
    CHOOSE v \in { line_words[i][f] : i \in DOMAIN line_words } :
        \A i \in DOMAIN line_words : v >= line_words[i][f]

\* " ".join(w["text"] for w in line_words).strip()
LineText(line_words) ==
    Strip(Join([i \in DOMAIN line_words |-> line_words[i].text], <<" ">>))

\* the ContentBlock of one line; heading_level is None except for a heading
LineBlock(line_words, page_num) ==
    LET text == LineText(line_words)
        bbox == << MinOf(line_words, "x0"), MinOf(line_words, "top"),
                   MaxOf(line_words, "x1"), MaxOf(line_words, "bottom") >>
        classified == _classify_text_type(text, line_words)
        block == [type |-> classified.type, content |-> text, page_num |-> page_num,
                  bbox |-> bbox, metadata |-> classified.metadata]
    IN  IF classified.type = "heading"
        THEN block @@ [heading_level |-> _extract_heading_level(text)]
        ELSE IF classified.type = "list"
        THEN block @@ [list_ordered |-> DictGet(classified.metadata, "ordered", FALSE),
                       list_items |-> <<text>>]
        ELSE block

\* the loop of _extract_text_blocks over the lines: empty lines are skipped
RECURSIVE LineBlocks(_, _)
LineBlocks(lines, page_num) ==
    IF lines = <<>> THEN <<>>
    ELSE LET line_words == Head(lines)
             skip == line_words = <<>> \/ LineText(line_words) = <<>>
         IN  (IF skip THEN <<>> ELSE <<LineBlock(line_words, page_num)>>)
                 \o LineBlocks(Tail(lines), page_num)

_extract_text_blocks(words, page_num) ==
    IF words = <<>> THEN <<>>
    ELSE LineBlocks(_group_words_to_lines(words), page_num)

\* _extract_images: one image block for each image of the page
_extract_images(images, page_num) ==
    [i \in DOMAIN images |->
        [type |-> "image", content |-> images[i], page_num |-> page_num,
         bbox |-> << DictGet(images[i], "x0", 0), DictGet(images[i], "y0", 0),
                     DictGet(images[i], "x1", 0), DictGet(images[i], "y1", 0) >>,
         metadata |-> [image_type |-> DictGet(images[i], "stream_type", "unknown")]]]

\* the blocks sorted by ascending y0 and the result reversed
SortBlocks_reversed_ascending(blocks) ==
    LET ascending == Values(StableSort([i \in DOMAIN blocks |->
                                           <<blocks[i].bbox[2], blocks[i]>>]))
    IN  [i \in DOMAIN ascending |-> ascending[Len(ascending) + 1 - i]]

\* blocks.sort(key=lambda b: b.bbox[1], reverse=True): descending y0, blocks
\* of equal y0 in their original order
SortBlocks(blocks) ==
    Values(StableSort([i \in DOMAIN blocks |-> <<-blocks[i].bbox[2], blocks[i]>>]))

classify(words, images, page_num, height) ==
    LET blocks == _extract_text_blocks(words, page_num) \o _extract_images(images, page_num)
    IN  SelectSeq(SortBlocks(blocks), LAMBDA b : ~_is_footer(b, height))

-----------------------------------------------------------------------------
(* extractors/heading.py: HeadingDetector                                  *)

\* HeadingDetector.SECTION_PATTERNS, in the order of the list: the text of
\* each pattern and what it matches
HeadingDetector_SECTION_PATTERNS ==
    << \* ^(\d+)\.\s+(.+)$
       [source |-> << "^", "(", "\\", "d", "+", ")", "\\", ".", "\\", "s", "+",
                      "(", ".", "+", ")", "$" >>,
        items |-> << Item(Digits, "+"), Item({"."}, "1"), Item(WhiteSpace, "+"),
                     Item(AnyChar, "+") >>,
        dollar |-> TRUE],
       \* ^(\d+)\.(\d+)\.\s+(.+)$
       [source |-> << "^", "(", "\\", "d", "+", ")", "\\", ".", "(", "\\", "d",
                      "+", ")", "\\", ".", "\\", "s", "+", "(", ".", "+", ")",
                      "$" >>,
        items |-> << Item(Digits, "+"), Item({"."}, "1"), Item(Digits, "+"),
                     Item({"."}, "1"), Item(WhiteSpace, "+"), Item(AnyChar, "+") >>,
        dollar |-> TRUE],
       \* ^(\d+)\.(\d+)\.(\d+)\s+(.+)$
       [source |-> << "^", "(", "\\", "d", "+", ")", "\\", ".", "(", "\\", "d",
                      "+", ")", "\\", ".", "(", "\\", "d", "+", ")", "\\", "s",
                      "+", "(", ".", "+", ")", "$" >>,
        items |-> << Item(Digits, "+"), Item({"."}, "1"), Item(Digits, "+"),
                     Item({"."}, "1"), Item(Digits, "+"), Item(WhiteSpace, "+"),
                     Item(AnyChar, "+") >>,
        dollar |-> TRUE],
       \* ^([A-Z][A-Z\s\d]+)$
       [source |-> << "^", "(", "[", "A", "-", "Z", "]", "[", "A", "-", "Z",
                      "\\", "s", "\\", "d", "]", "+", ")", "$" >>,
        items |-> << Item(UpperCase, "1"),
                     Item(UpperCase \cup WhiteSpace \cup Digits, "+") >>,
        dollar |-> TRUE] >>

\* _extract_level_from_pattern whose first test is `r'^(\d+)\.' in pattern`
_extract_level_from_pattern_short_test(pattern) ==
    IF Contains(pattern.source, << "^", "(", "\\", "d", "+", ")", "\\", "." >>)
    THEN 1
    ELSE IF Contains(pattern.source,
                     << "^", "(", "\\", "d", "+", ")", "\\", ".", "(", "\\", "d",
                        "+", ")", "\\", ".", "\\", "s", "+" >>)
    THEN 2
    ELSE IF Contains(pattern.source,
                     << "^", "(", "\\", "d", "+", ")", "\\", ".", "(", "\\", "d",
                        "+", ")", "\\", ".", "(", "\\", "d", "+", ")", "\\", "s",
                        "+" >>)
    THEN 3
    ELSE 2

\* _extract_level_from_pattern: the level by the text the pattern contains
_extract_level_from_pattern(pattern) ==
    IF Contains(pattern.source,
                << "^", "(", "\\", "d", "+", ")", "\\", ".", "\\", "s", "+" >>)
    THEN 1
    ELSE IF Contains(pattern.source,
                     << "^", "(", "\\", "d", "+", ")", "\\", ".", "(", "\\", "d",
                        "+", ")", "\\", ".", "\\", "s", "+" >>)
    THEN 2
    ELSE IF Contains(pattern.source,
                     << "^", "(", "\\", "d", "+", ")", "\\", ".", "(", "\\", "d",
                        "+", ")", "\\", ".", "(", "\\", "d", "+", ")", "\\", "s",
                        "+" >>)
    THEN 3
    ELSE 2

_estimate_level_from_font(font_size) ==
    IF font_size >= 20 THEN 1
    ELSE IF font_size >= 16 THEN 2
    ELSE IF font_size >= 14 THEN 3
    ELSE 4

\* HeadingDetector.extract_level: the level of the first pattern of the
\* detector's list that matches the stripped text, else 2
extract_level(text) ==
    LET matching == { k \in DOMAIN HeadingDetector_SECTION_PATTERNS :
                          ReMatch(HeadingDetector_SECTION_PATTERNS[k], Strip(text)) }
    IN  IF matching # {}
        THEN _extract_level_from_pattern(
                 HeadingDetector_SECTION_PATTERNS[
                     CHOOSE k \in matching : \A j \in matching : k <= j])
        ELSE 2

\* detect returning None
NoHeading == [detected |-> None]

\* HeadingDetector.detect; font_size 0 stands for None as well, `if font_size`
\* taking both for false
detect(text, font_size) ==
    LET matching == { k \in DOMAIN HeadingDetector_SECTION_PATTERNS :
                          ReMatch(HeadingDetector_SECTION_PATTERNS[k], Strip(text)) }
    IN  IF matching # {}
        THEN [level |-> _extract_level_from_pattern(
                            HeadingDetector_SECTION_PATTERNS[
                                CHOOSE k \in matching : \A j \in matching : k <= j]),
              text |-> Strip(text),
              confidence |-> Frac(95, 100)]
        ELSE IF font_size # 0 /\ font_size > 14
        THEN [level |-> _estimate_level_from_font(font_size),
              text |-> Strip(text),
              confidence |-> Frac(7, 10)]
        ELSE NoHeading

-----------------------------------------------------------------------------
(* extractors/table.py: TableExtractor._process_table                      *)

\* a cell that is None in the raw grid
NoneCell == <<None>>

\* the cleaning of one cell: None becomes "", line breaks become spaces and
\* runs of whitespace one space
CleanCell(cell) ==
    IF cell = NoneCell THEN <<>>
    ELSE Join(Split(ReplaceNewlines(cell)), <<" ">>)

\* the cleaned rows that have at least one non-empty cell
RECURSIVE FilterRows(_)
FilterRows(table_data) ==
    IF table_data = <<>> THEN <<>>
    ELSE LET row == Head(table_data)
             cleaned_row == [c \in DOMAIN row |-> CleanCell(row[c])]
             keep == /\ cleaned_row # <<>>
                     /\ \E c \in DOMAIN cleaned_row : Strip(cleaned_row[c]) # <<>>
         IN  (IF keep THEN <<cleaned_row>> ELSE <<>>) \o FilterRows(Tail(table_data))

\* max(len(row) for row in filtered_data)
RECURSIVE MaxLen(_)
MaxLen(rows) == IF rows = <<>> THEN 0 ELSE Max(Len(Head(rows)), MaxLen(Tail(rows)))

\* every row padded with "" to max_cols cells
PadRows(rows, max_cols) ==
    [r \in DOMAIN rows |->
        [c \in 1..max_cols |-> IF c <= Len(rows[r]) THEN rows[r][c] ELSE <<>>]]

\* the columns cut after the last one with data, without the last data column
TruncateColumns_off_by_one(rows, max_cols) ==
    LET has_data == [c \in 1..max_cols |->
                        \E r \in DOMAIN rows : rows[r][c] # <<>> /\ Strip(rows[r][c]) # <<>>]
        with_data == { c \in 1..max_cols : has_data[c] }
    IN  IF with_data # {}
        THEN LET last_valid_col == CHOOSE c \in with_data : \A d \in with_data : d <= c
             IN  [r \in DOMAIN rows |-> SubSeq(rows[r], 1, last_valid_col - 1)]
        ELSE rows

\* every empty column removed, interior ones included
TruncateColumns_all_empty(rows, max_cols) ==
    LET has_data == [c \in 1..max_cols |->
                        \E r \in DOMAIN rows : rows[r][c] # <<>> /\ Strip(rows[r][c]) # <<>>]
        kept(row) == SelectSeq([c \in 1..max_cols |-> <<c, row[c]>>],
                               LAMBDA p : has_data[p[1]])
    IN  [r \in DOMAIN rows |-> [i \in DOMAIN kept(rows[r]) |-> kept(rows[r])[i][2]]]

\* the columns right of the last column with data removed
TruncateColumns(rows, max_cols) ==
    LET has_data == [c \in 1..max_cols |->
                        \E r \in DOMAIN rows : rows[r][c] # <<>> /\ Strip(rows[r][c]) # <<>>]
        with_data == { c \in 1..max_cols : has_data[c] }
    IN  IF with_data # {}
        THEN LET last_valid_col == CHOOSE c \in with_data : \A d \in with_data : d <= c
             IN  [r \in DOMAIN rows |-> SubSeq(rows[r], 1, last_valid_col)]
        ELSE rows

\* the number of non-empty cells
NonEmptyCells(rows) ==
    Len(SelectSeq(Flatten(rows), LAMBDA cell : cell # <<>> /\ Strip(cell) # <<>>))

\* the result of _process_table when it returns None
NoTable == [returned |-> None]

_process_table(table_data, index, page_num, confidence_threshold) ==
    LET filtered == FilterRows(table_data)
    IN  IF filtered = <<>> THEN NoTable
        ELSE
        LET max_cols == MaxLen(filtered)
            filtered_data == TruncateColumns(PadRows(filtered, max_cols), max_cols)
            total_cells == Len(Flatten(filtered_data))
            non_empty_cells == NonEmptyCells(filtered_data)
            fl == IF total_cells > 0
                  THEN RMul(RDiv(Num(non_empty_cells), Num(total_cells)), Num(100))
                  ELSE Num(50)
            score_result == score_table(filtered_data, fl, confidence_threshold)
            complexity == analyze_table_complexity(filtered_data)
            uncertain_ratio ==
                IF complexity.rows > 0
                THEN RDiv(Num(Len(score_result.uncertain_cells)),
                          Num(complexity.rows * complexity.cols))
                ELSE Num(0)
        IN  [data |-> filtered_data,
             flask |-> fl,
             page |-> page_num,
             index |-> index,
             needs_manual_check |-> needs_manual_check(complexity, fl, uncertain_ratio),
             uncertain_cells |-> score_result.uncertain_cells,
             complexity |-> complexity,
             confidence |-> score_result.overall_confidence]

-----------------------------------------------------------------------------
(* Inputs of the table post-processor                                      *)

\* rows + cells of the largest raw grid handed to _process_table
MaxRawSize == 5

\* raw cells: None, "", blank, plain, and text to trim and collapse
RawCells ==
    { NoneCell, <<>>, <<" ", "\n">>, <<"a">>, <<" ", "a", "\r", "\n", "b", " ">> }

-----------------------------------------------------------------------------
(* Inputs of the classifier                                                *)

\* the words of the longest line handed to the line operations
MaxLineWords == 3

\* the words of the largest page handed to classify
MaxPageWords == 3

\* all lists over S of at most n elements
BoundedSeqs(S, n) == UNION { [1..k -> S] : k \in 0..n }

\* word texts for section numbers, list markers and plain text
HeadingWords ==
    { <<"1", ".">>, <<"1", ".", "2", ".">>, <<"1", ".", "2", ".", "3">>,
      <<"1", ".", "2">>, <<"1", ")">>, <<"A">>, <<"a">>, <<"-">>, <<"1", "2">> }

\* word texts for page numbers and running titles; the long word makes lines
\* of 49 and of 50 characters
FooterWords ==
    { <<"1">>, <<"-">>, <<"P", "a", "g", "e">>, <<"P", "A", "G", "E", "3">>,
      <<"A", "B">>, <<"a", "b">>, <<"U+9875">>,
      [i \in 1..23 |-> "A"] }

\* font sizes of the words of a line: no size at all, the same for every
\* word, or a large first word
FontProfiles == {"none", "12", "14", "16", "mixed"}

FontSize(profile, i) ==
    CASE profile = "12" -> 12
      [] profile = "14" -> 14
      [] profile = "16" -> 16
      [] profile = "mixed" -> IF i = 1 THEN 20 ELSE 12

\* font sizes handed to HeadingDetector.detect; 0: none given
DetectFontSizes == {0, 14, 15, 16, 20}

\* a word as extract_words returns it
Word(text, x0, top) ==
    [text |-> text, x0 |-> x0, x1 |-> x0 + 8, top |-> top, bottom |-> top + 10]

\* the words of one line, left to right
LineWords(texts, profile, top) ==
    [i \in DOMAIN texts |->
        IF profile = "none" THEN Word(texts[i], 10 * i, top)
        ELSE Word(texts[i], 10 * i, top) @@ [size |-> FontSize(profile, i)]]

BlockTypes == {"heading", "paragraph", "list"}

\* y0 of a block on a page 800 high: in, at the edge of and outside the margins
BlockTops == {79, 80, 400, 720, 721}

\* the words of a page: two lines within the tolerance of each other, a word
\* exactly 5 below the first, lines in both margins, a section number
PageWords ==
    { Word(<<"a">>, 0, 100) @@ [size |-> 12],
      Word(<<"b">>, 50, 100) @@ [size |-> 12],
      Word(<<"c">>, 20, 104) @@ [size |-> 12],
      Word(<<"d">>, 0, 108) @@ [size |-> 12],
      Word(<<"f">>, 30, 105) @@ [size |-> 12],
      Word(<<"1", ".">>, 0, 300) @@ [size |-> 12],
      Word(<<"e">>, 50, 300) @@ [size |-> 16],
      Word(<<"A">>, 0, 10) @@ [size |-> 12],
      Word(<<"1", "2">>, 0, 750) @@ [size |-> 12] }

PageImages ==
    { [x0 |-> 0, y0 |-> 200, x1 |-> 50, y1 |-> 250, stream_type |-> "jpeg"],
      [x0 |-> 0, y0 |-> 100, x1 |-> 50, y1 |-> 150] }

-----------------------------------------------------------------------------
(* quality/reporter.py: QualityReporter                                    *)

\* the reporter's accumulated state
Reporter(checked, total, confidence) ==
    [tables_checked |-> checked, total_tables |-> total,
     total_confidence |-> confidence]

\* report_table: the reporter's state after recording table_info.  The
\* running sum total_confidence is a float, rounded at every addition; the
\* flask of a summary is written as a rational and is the float nearest to it.
report_table(self, table_info) ==
    Reporter(Append(self.tables_checked, table_info),
             self.total_tables + 1,
             IF "flask" \in DOMAIN table_info
             THEN FloatAdd(self.total_confidence, Float(table_info.flask))
             ELSE self.total_confidence)

ManualCheck(t) == IF DictGet(t, "needs_manual_check", FALSE) THEN 1 ELSE 0

UncertainCount(t) == Len(DictGet(t, "uncertain_cells", <<>>))

Cells(t) ==
    DictGet(DictGet(t, "complexity", <<>>), "rows", 0)
        * DictGet(DictGet(t, "complexity", <<>>), "cols", 0)

\* get_metrics with every recorded table counted as needing a manual check
get_metrics_count_all(self) ==
    LET manual_check_count == Len(self.tables_checked)
        total_uncertain == SumSeq([i \in DOMAIN self.tables_checked |->
                                       UncertainCount(self.tables_checked[i])])
        total_cells == SumSeq([i \in DOMAIN self.tables_checked |->
                                   Cells(self.tables_checked[i])])
        uncertain_ratio == IF total_cells > 0 THEN Frac(total_uncertain, total_cells)
                           ELSE Num(0)
    IN  [total_tables |-> self.total_tables,
         manual_check_tables |-> manual_check_count,
         manual_check_ratio |->
             IF self.total_tables > 0
             THEN Frac(manual_check_count, self.total_tables) ELSE Num(0),
         avg_confidence |->
             IF self.total_tables > 0
             THEN FloatDiv(self.total_confidence, self.total_tables) ELSE FloatZero,
         coverage |-> RMul(RSub(Num(1), RMul(uncertain_ratio, Frac(1, 2))), Num(100))]

get_metrics(self) ==
    LET manual_check_count == SumSeq([i \in DOMAIN self.tables_checked |->
                                          ManualCheck(self.tables_checked[i])])
        total_uncertain == SumSeq([i \in DOMAIN self.tables_checked |->
                                       UncertainCount(self.tables_checked[i])])
        total_cells == SumSeq([i \in DOMAIN self.tables_checked |->
                                   Cells(self.tables_checked[i])])
        uncertain_ratio == IF total_cells > 0 THEN Frac(total_uncertain, total_cells)
                           ELSE Num(0)
    IN  [total_tables |-> self.total_tables,
         manual_check_tables |-> manual_check_count,
         manual_check_ratio |->
             IF self.total_tables > 0
             THEN Frac(manual_check_count, self.total_tables) ELSE Num(0),
         avg_confidence |->
             IF self.total_tables > 0
             THEN FloatDiv(self.total_confidence, self.total_tables) ELSE FloatZero,
         coverage |-> RMul(RSub(Num(1), RMul(uncertain_ratio, Frac(1, 2))), Num(100))]

-----------------------------------------------------------------------------
(* Inputs of the reporter                                                  *)

\* report_table calls made on one reporter
MaxTables == 3

\* table_info dictionaries: as _process_table builds them, and with keys missing
TableInfos ==
    { [flask |-> Num(90), needs_manual_check |-> FALSE, uncertain_cells |-> <<>>,
       complexity |-> [rows |-> 2, cols |-> 2]],
      [flask |-> Frac(151, 2), needs_manual_check |-> TRUE,
       uncertain_cells |-> << <<1, 1>> >>, complexity |-> [rows |-> 2, cols |-> 1]],
      [flask |-> Num(0), needs_manual_check |-> TRUE, uncertain_cells |-> <<>>,
       complexity |-> [rows |-> 1, cols |-> 1]],
      [needs_manual_check |-> TRUE],
      [flask |-> Num(100)],
      [flask |-> Num(50), needs_manual_check |-> TRUE,
       uncertain_cells |-> << <<0, 0>>, <<0, 0>>, <<0, 0>> >>,
       complexity |-> [rows |-> 1, cols |-> 1]],
      [flask |-> Frac(100, 3), needs_manual_check |-> TRUE,
       uncertain_cells |-> <<>>, complexity |-> [rows |-> 1, cols |-> 3]],
      [flask |-> Frac(200, 3), needs_manual_check |-> TRUE,
       uncertain_cells |-> <<>>, complexity |-> [rows |-> 1, cols |-> 3]] }

-----------------------------------------------------------------------------
(* extractors/table.py: TableExtractor.extract, and converter.py           *)

\* the outcome of a call: it returned a value, or it raised an exception
Returned(v) == [raised |-> FALSE, value |-> v]

Raised == [raised |-> TRUE]

\* the loop of extract over enumerate(extracted_tables), from index i on:
\* the tables _process_table did not turn into None
RECURSIVE ProcessTables(_, _, _, _)
ProcessTables(extracted_tables, i, page_num, confidence_threshold) ==
    IF i >= Len(extracted_tables) THEN <<>>
    ELSE LET kept(table_dict) == IF table_dict = NoTable THEN <<>> ELSE <<table_dict>>
         IN  kept(_process_table(extracted_tables[i + 1], i, page_num,
                                 confidence_threshold))
                 \o ProcessTables(extracted_tables, i + 1, page_num,
                                  confidence_threshold)

\* TableExtractor.extract: `except Exception` logs a warning and the tables
\* collected so far (none, when extract_tables itself raised) are returned
extract(page, page_num, confidence_threshold) ==
    IF page.extract_tables.raised THEN Returned(<<>>)
    ELSE Returned(ProcessTables(page.extract_tables.value, 0, page_num,
                                confidence_threshold))

\* ContentBlockClassifier(page, page_num, height).classify(): extract_words
\* is called outside any try
classify_page(page, page_num, height) ==
    IF page.extract_words.raised THEN Raised
    ELSE Returned(classify(page.extract_words.value, page.images, page_num, height))

\* str(n) of a natural number
RECURSIVE Str(_)
Str(n) ==
    LET digit == <<"0", "1", "2", "3", "4", "5", "6", "7", "8", "9">>
    IN  IF n < 10 THEN <<digit[n + 1]>> ELSE Str(n \div 10) \o <<digit[(n % 10) + 1]>>

\* the dictionary _process_content_blocks hands to report_table
TableInfo(table, page_num) ==
    [page_num |-> page_num,
     caption |-> <<"T", "a", "b", "l", "e", " ">> \o Str(page_num) \o <<"-">>
                    \o Str(table.index),
     flask |-> table.flask,
     needs_manual_check |-> table.needs_manual_check,
     complexity |-> table.complexity,
     uncertain_cells |-> table.uncertain_cells]

\* _process_content_blocks, as far as the reporter goes: every table recorded
RECURSIVE _process_content_blocks(_, _, _)
_process_content_blocks(self, tables, page_num) ==
    IF tables = <<>> THEN self
    ELSE _process_content_blocks(report_table(self, TableInfo(Head(tables), page_num)),
                                 Tail(tables), page_num)

\* _process_page(page_num), page_num counted from 0: the reporter afterwards,
\* or the exception of classify()
_process_page(self, page, page_num, height, confidence_threshold) ==
    IF classify_page(page, page_num + 1, height).raised THEN Raised
    ELSE Returned(_process_content_blocks(
                      self, extract(page, page_num + 1, confidence_threshold).value,
                      page_num + 1))

\* the loop of convert over range(page_count), from page_num on
RECURSIVE ProcessPages(_, _, _, _, _)
ProcessPages(self, pages, page_num, height, confidence_threshold) ==
    IF page_num >= Len(pages) THEN [raised |-> FALSE, self |-> self]
    ELSE LET next(done) ==
                 IF done.raised THEN [raised |-> TRUE, self |-> self]
                 ELSE ProcessPages(done.value, pages, page_num + 1, height,
                                   confidence_threshold)
         IN  next(_process_page(self, pages[page_num + 1], page_num, height,
                                confidence_threshold))

\* DatasheetConverter.convert: whether it raised, and the quality reporter
\* afterwards; `self` is the reporter made by __init__
convert(self, pdf, height, confidence_threshold) ==
    IF ~pdf.opens THEN [raised |-> TRUE, self |-> self]
    ELSE ProcessPages(self, pdf.pages, 0, height, confidence_threshold)

-----------------------------------------------------------------------------
(* converters/markdown.py: MarkdownConverter.table_to_markdown             *)

\* the marker of an uncertain cell
UncertainMarker == <<"[", "U", "N", "C", "E", "R", "T", "A", "I", "N", "]">>

\* the cell after the marking loop
MarkCell(cell, uncertain) ==
    IF ~uncertain THEN cell
    ELSE IF cell # <<>> /\ Strip(cell) # <<>> THEN cell \o <<" ">> \o UncertainMarker
    ELSE UncertainMarker

\* "| " + " | ".join(cells) + " |"
TableLine(cells) == <<"|", " ">> \o Join(cells, <<" ", "|", " ">>) \o <<" ", "|">>

\* table_to_markdown: "" for no grid; else the grid is copied, its cells
\* cleaned and marked, its rows padded and cut after the last column with
\* data, where a cell that is only the marker is no data; max() of no column
\* raises ValueError. The result is kept as its lines, with the caption line
\* and the grid the caller still holds.
table_to_markdown(table_data, caption, manual_check, uncertain_cells) ==
    IF table_data = <<>> \/ table_data[1] = <<>>
    THEN Returned([caption |-> <<>>, lines |-> <<>>, table_data |-> table_data])
    ELSE
    LET cell_set == { uncertain_cells[k] : k \in DOMAIN uncertain_cells }
        marked == [r \in DOMAIN table_data |->
                      [c \in DOMAIN table_data[r] |->
                          MarkCell(IF table_data[r][c] # <<>>
                                   THEN CleanCell(table_data[r][c]) ELSE <<>>,
                                   <<r - 1, c - 1>> \in cell_set)]]
        max_cols == MaxLen(marked)
        padded == PadRows(marked, max_cols)
        with_data == { c \in 1..max_cols :
                          \E r \in DOMAIN padded :
                              /\ padded[r][c] # <<>>
                              /\ Strip(padded[r][c]) # <<>>
                              /\ Strip(padded[r][c]) \notin {<<>>, UncertainMarker} }
    IN  IF with_data = {} THEN Raised
        ELSE
        LET last_valid_col == CHOOSE c \in with_data : \A d \in with_data : d <= c
            cut == [r \in DOMAIN padded |-> SubSeq(padded[r], 1, last_valid_col)]
            header == cut[1]
            separator == [c \in DOMAIN header |-> <<"-", "-", "-">>]
        IN  Returned([caption |->
                          IF caption # <<>>
                          THEN <<"#", "#", "#", " ">> \o caption
                                   \o (IF manual_check
                                       THEN <<" ">> \o <<"[", "M", "A", "N", "U", "A", "L", "_",
                                                         "C", "H", "E", "C", "K", "]">>
                                       ELSE <<>>)
                          ELSE <<>>,
                      lines |-> <<TableLine(header), TableLine(separator)>>
                                    \o [r \in 1..(Len(cut) - 1) |-> TableLine(cut[r + 1])],
                      table_data |-> table_data])

-----------------------------------------------------------------------------
(* cli.py: the convert command, and what one page adds to the document     *)

\* float('nan'), which `--confidence nan` gives
NaN == <<0, 0>>

\* p <= q on floats: false when either is not a number
Leq(p, q) == p[2] # 0 /\ q[2] # 0 /\ p[1] * q[2] <= q[1] * p[2]

\* the check without its lower bound: `not confidence <= 100`
InvalidConfidence_upper_only(confidence) ==
    ~Leq(confidence, Num(100))

\* `not 0 <= confidence <= 100`
InvalidConfidence(confidence) ==
    ~(Leq(Num(0), confidence) /\ Leq(confidence, Num(100)))

\* the threshold the scorer compares whole scores with: score < q holds iff
\* score is below the smallest whole number that is not below q
Ceiling(q) == -((-q[1]) \div q[2])

\* ImageExtractor.extract: an image_info for every image that has a stream
extract_images(images, page_num) ==
    LET indexed == [i \in DOMAIN images |-> [index |-> i - 1, img |-> images[i]]]
        saved == SelectSeq(indexed, LAMBDA e : "stream" \in DOMAIN e.img)
    IN  [k \in DOMAIN saved |->
            [path |-> <<"i", "m", "a", "g", "e", "s", "/", "p", "a", "g", "e">>
                          \o Str(page_num) \o <<"_", "i", "m", "g">>
                          \o Str(saved[k].index) \o <<".", "p", "n", "g">>,
             page |-> page_num,
             index |-> saved[k].index,
             bbox |-> << DictGet(saved[k].img, "x0", 0), DictGet(saved[k].img, "y0", 0),
                         DictGet(saved[k].img, "x1", 0), DictGet(saved[k].img, "y1", 0) >>]]

\* the first loop of _process_content_blocks: add_heading, add_paragraph or
\* add_list for a text block, nothing for a block of another type.  A part
\* of the document is written as the call that added it.
TextParts(content_blocks, page_num) ==
    LET text_blocks == SelectSeq(content_blocks, LAMBDA b : b.type \in BlockTypes)
    IN  [i \in DOMAIN text_blocks |->
            LET block == text_blocks[i]
            IN  IF block.type = "heading"
                THEN [kind |-> "heading", page |-> page_num, text |-> block.content,
                      level |-> IF block.heading_level = 0 THEN 2
                                ELSE block.heading_level]
                ELSE IF block.type = "paragraph"
                THEN [kind |-> "paragraph", page |-> page_num, text |-> block.content]
                ELSE [kind |-> "list", page |-> page_num, items |-> block.list_items,
                      ordered |-> block.list_ordered]]

\* the second loop: add_table for every table
TableParts(tables, page_num) ==
    [i \in DOMAIN tables |->
        [kind |-> "table", page |-> page_num, table_data |-> tables[i].data,
         caption |-> <<"T", "a", "b", "l", "e", " ">> \o Str(page_num) \o <<"-">>
                        \o Str(tables[i].index),
         manual_check |-> tables[i].needs_manual_check,
         uncertain_cells |-> tables[i].uncertain_cells]]

\* the third loop: add_image for every image_info
ImageParts(images, page_num) ==
    [i \in DOMAIN images |->
        [kind |-> "image", page |-> page_num, path |-> images[i].path,
         alt |-> <<"I", "m", "a", "g", "e", " ", "o", "n", " ", "p", "a", "g", "e", " ">>
                    \o Str(page_num)]]

\* the loops of _process_content_blocks with the tables first
ContentParts_tables_first(content_blocks, tables, images, page_num) ==
    TableParts(tables, page_num) \o TextParts(content_blocks, page_num)
        \o ImageParts(images, page_num)

\* what _process_content_blocks appends to DocumentBuilder.content_parts
ContentParts(content_blocks, tables, images, page_num) ==
    TextParts(content_blocks, page_num) \o TableParts(tables, page_num)
        \o ImageParts(images, page_num)

-----------------------------------------------------------------------------
(* Inputs of the converter                                                 *)

\* pages of the longest document
MaxPages == 2

\* convert() calls made on one converter
MaxRuns == 2

\* what page.extract_words() does
WordOutcomes ==
    { Returned(<< [text |-> <<"a">>, x0 |-> 0, x1 |-> 8, top |-> 100, bottom |-> 110] >>),
      Raised }

\* what page.extract_tables() does: no table, one, two (the second of which
\* has no data), or an exception
TableOutcomes ==
    { Returned(<<>>),
      Returned(<< << << <<"a">>, <<>> >> >> >>),
      Returned(<< << << <<"a">> >>, << <<"<">> >> >>,
                  << <<>>, << NoneCell >> >> >>),
      Raised }

PdfPages ==
    { [extract_words |-> w, extract_tables |-> t, images |-> <<>>] :
          w \in WordOutcomes, t \in TableOutcomes }

\* the pages documents are made of: with and without a table, and with each
\* of the two extractions failing
DocPages ==
    { page \in PdfPages :
          /\ Len(DictGet(page.extract_tables, "value", <<>>)) <= 1
          /\ page.extract_words.raised => ~page.extract_tables.raised }

\* documents: a file that cannot be opened, or pages
Pdfs ==
    { [opens |-> FALSE, pages |-> <<>>] }
        \cup { [opens |-> TRUE, pages |-> pages] : pages \in BoundedSeqs(DocPages, MaxPages) }

\* values of --confidence: the ends of [0, 100], values inside and just
\* outside, and nan
Confidences ==
    { Num(-1), Frac(-1, 2), Num(0), Num(50), Frac(199, 2), Num(100),
      Frac(201, 2), Num(101), Num(150), NaN }

\* a table with two empty cells and a table that cleans to nothing; a table
\* that is rendered and one that cannot be; an exception
CommandTables ==
    { Returned(<<>>),
      Returned(<< << << <<"a">>, <<>> >>, << <<>>, <<"b">> >> >>,
                  << << <<>>, NoneCell >> >> >>),
      Returned(<< << << <<"a">> >> >>, << << UncertainMarker >> >> >>),
      Raised }

\* the words of a page: none, a numbered heading above a paragraph, or an
\* exception
CommandWords ==
    { Returned(<<>>),
      Returned(<< Word(<<"a">>, 0, 300) @@ [size |-> 12],
                  Word(<<"1", ".">>, 0, 100) @@ [size |-> 12],
                  Word(<<"e">>, 50, 100) @@ [size |-> 12] >>),
      Raised }

\* the images of a page: none, or one without and one with a stream
CommandImages ==
    { <<>>,
      << [x0 |-> 0, y0 |-> 200, x1 |-> 50, y1 |-> 250],
         [x0 |-> 0, y0 |-> 500, x1 |-> 50, y1 |-> 550, stream |-> "png"] >> }

\* the pages of the documents given to the command: empty, with text, a
\* table and images, and with either extraction failing
CommandPages ==
    { page \in [extract_words : CommandWords, extract_tables : CommandTables,
                images : CommandImages] :
          \/ page.extract_words = Returned(<<>>) /\ page.extract_tables = Returned(<<>>)
                /\ page.images = <<>>
          \/ page.extract_words.raised /\ page.extract_tables = Returned(<<>>)
                /\ page.images = <<>>
          \/ ~page.extract_words.raised /\ page.extract_words # Returned(<<>>)
                /\ page.images # <<>> }

\* the PDF_PATH argument: no such file, a file that is no PDF, or a document
Documents ==
    { [exists |-> FALSE, opens |-> FALSE, pages |-> <<>>],
      [exists |-> TRUE, opens |-> FALSE, pages |-> <<>>] }
        \cup { [exists |-> TRUE, opens |-> TRUE, pages |-> pages] :
                   pages \in BoundedSeqs(CommandPages, MaxPages) }

\* raw cells for the tables that are rendered: empty, text, text with a
\* column separator in it, and text that reads like the marker
RenderCells ==
    { <<>>, <<"a">>, <<"a", " ", "|", " ", "b">>, UncertainMarker }

-----------------------------------------------------------------------------
(* The objects after construction                                          *)

\* no convert command has been started: no converter, no parser, no document
InitCommand ==
    /\ pc = "idle"
    /\ converter = [constructed |-> FALSE]
    /\ pdf_parser = [created |-> FALSE]
    /\ page_number = 0
    /\ content_parts = <<>>
    /\ exception = FALSE

\* ConfidenceScorer(), ContentBlockClassifier(None, 1, 800), QualityReporter()
InitObjects ==
    /\ threshold = 50
    /\ page_height = 800
    /\ tables_checked = <<>>
    /\ total_tables = 0
    /\ total_confidence = FloatZero
    /\ InitCommand

\* nothing has been called yet
InitCall ==
    /\ call = [op |-> "none", reported |-> <<>>]
    /\ ret = None

\* the scorer is constructed with any threshold of [0, 100]
InitScorer ==
    /\ threshold \in Thresholds
    /\ page_height = 800
    /\ tables_checked = <<>>
    /\ total_tables = 0
    /\ total_confidence = FloatZero
    /\ InitCommand
    /\ InitCall

-----------------------------------------------------------------------------
(* Operations of the scorer                                                *)

ScoreTable ==
    /\ call.op = "none"
    /\ \E table_data \in GridsUpTo(ScoreCells, MaxGridSize), fl \in ScoreFlasks :
          /\ call' = [op |-> "score_table", table_data |-> table_data, flask |-> fl]
          /\ ret' = score_table(table_data, fl, threshold)
    /\ UNCHANGED <<threshold, page_height, tables_checked, total_tables,
                   total_confidence, command>>

NeedsManualCheck ==
    /\ call.op = "none"
    /\ \E complexity \in Complexities, fl \in Flasks, ratio \in UncertainRatios :
          /\ call' = [op |-> "needs_manual_check", complexity |-> complexity,
                      flask |-> fl, uncertain_ratio |-> ratio]
          /\ ret' = needs_manual_check(complexity, fl, ratio)
    /\ UNCHANGED <<threshold, page_height, tables_checked, total_tables,
                   total_confidence, command>>

AnalyzeTableComplexity ==
    /\ call.op = "none"
    /\ \E table_data \in GridsUpTo(ScoreCells, MaxGridSize) :
          /\ call' = [op |-> "analyze_table_complexity", table_data |-> table_data]
          /\ ret' = analyze_table_complexity(table_data)
    /\ UNCHANGED <<threshold, page_height, tables_checked, total_tables,
                   total_confidence, command>>

NextScorer == ScoreTable \/ NeedsManualCheck

SpecScorer == InitScorer /\ [][NextScorer]_vars

-----------------------------------------------------------------------------
(* Operations of the table post-processor                                  *)

\* TableExtractor(pdf_path, 1): its scorer has the default threshold
InitTable == InitObjects /\ InitCall

ProcessTable ==
    /\ call.op = "none"
    /\ \E table_data \in GridsUpTo(RawCells, MaxRawSize) :
          /\ call' = [op |-> "_process_table", table_data |-> table_data,
                      rerun |-> FALSE, raw |-> table_data]
          /\ ret' = _process_table(table_data, 0, 1, threshold)
    /\ UNCHANGED <<threshold, page_height, tables_checked, total_tables,
                   total_confidence, command>>

\* the post-processor run again on the grid it returned
ReprocessTable ==
    /\ call.op = "_process_table"
    /\ ~call.rerun
    /\ ret # NoTable
    /\ call' = [op |-> "_process_table", table_data |-> ret.data,
                rerun |-> TRUE, raw |-> call.raw]
    /\ ret' = _process_table(ret.data, 0, 1, threshold)
    /\ UNCHANGED <<threshold, page_height, tables_checked, total_tables,
                   total_confidence, command>>

NextTable == ProcessTable \/ ReprocessTable

SpecTable == InitTable /\ [][NextTable]_vars

-----------------------------------------------------------------------------
(* Operations of the classifier on one line                                *)

\* ContentBlockClassifier(page, 1, 800)
InitLine == InitObjects /\ InitCall

ClassifyTextType ==
    /\ call.op = "none"
    /\ \E texts \in BoundedSeqs(HeadingWords, MaxLineWords), profile \in FontProfiles,
          padded \in BOOLEAN :
          LET text == IF padded THEN <<" ">> \o Join(texts, <<" ">>) \o <<" ">>
                      ELSE Join(texts, <<" ">>)
              words == LineWords(texts, profile, 100)
          IN  /\ call' = [op |-> "_classify_text_type", text |-> text, words |-> words]
              /\ ret' = _classify_text_type(text, words)
    /\ UNCHANGED <<threshold, page_height, tables_checked, total_tables,
                   total_confidence, command>>

ExtractHeadingLevel ==
    /\ call.op = "none"
    /\ \E texts \in BoundedSeqs(HeadingWords, MaxLineWords), padded \in BOOLEAN :
          LET text == IF padded THEN <<" ">> \o Join(texts, <<" ">>) \o <<" ">>
                      ELSE Join(texts, <<" ">>)
          IN  /\ call' = [op |-> "_extract_heading_level", text |-> text]
              /\ ret' = _extract_heading_level(text)
    /\ UNCHANGED <<threshold, page_height, tables_checked, total_tables,
                   total_confidence, command>>

\* _extract_text_blocks on a page that holds one line of words
ExtractTextBlocks ==
    /\ call.op = "none"
    /\ \E texts \in BoundedSeqs(HeadingWords, MaxLineWords), profile \in FontProfiles :
          LET words == LineWords(texts, profile, 100)
          IN  /\ call' = [op |-> "_extract_text_blocks", words |-> words]
              /\ ret' = _extract_text_blocks(words, 1)
    /\ UNCHANGED <<threshold, page_height, tables_checked, total_tables,
                   total_confidence, command>>

IsFooter ==
    /\ call.op = "none"
    /\ \E texts \in BoundedSeqs(FooterWords, MaxLineWords), type \in BlockTypes,
          y0 \in BlockTops :
          LET block == [type |-> type, content |-> Join(texts, <<" ">>), page_num |-> 1,
                        bbox |-> <<0, y0, 100, y0 + 10>>, metadata |-> <<>>]
          IN  /\ call' = [op |-> "_is_footer", block |-> block]
              /\ ret' = _is_footer(block, page_height)
    /\ UNCHANGED <<threshold, page_height, tables_checked, total_tables,
                   total_confidence, command>>

Detect ==
    /\ call.op = "none"
    /\ \E texts \in BoundedSeqs(HeadingWords, MaxLineWords),
          font_size \in DetectFontSizes :
          LET text == Join(texts, <<" ">>)
          IN  /\ call' = [op |-> "detect", text |-> text, font_size |-> font_size]
              /\ ret' = detect(text, font_size)
    /\ UNCHANGED <<threshold, page_height, tables_checked, total_tables,
                   total_confidence, command>>

ExtractLevel ==
    /\ call.op = "none"
    /\ \E texts \in BoundedSeqs(HeadingWords, MaxLineWords), padded \in BOOLEAN :
          LET text == IF padded THEN <<" ">> \o Join(texts, <<" ">>) \o <<" ">>
                      ELSE Join(texts, <<" ">>)
          IN  /\ call' = [op |-> "extract_level", text |-> text]
              /\ ret' = extract_level(text)
    /\ UNCHANGED <<threshold, page_height, tables_checked, total_tables,
                   total_confidence, command>>

NextLine ==
    \/ ExtractLevel
    \/ ClassifyTextType
    \/ ExtractHeadingLevel
    \/ ExtractTextBlocks
    \/ IsFooter
    \/ Detect

SpecLine == InitLine /\ [][NextLine]_vars

-----------------------------------------------------------------------------
(* Operations of the classifier on a page                                  *)

InitPage == InitObjects /\ InitCall

Classify ==
    /\ call.op = "none"
    /\ \E words \in BoundedSeqs(PageWords, MaxPageWords),
          images \in BoundedSeqs(PageImages, 1) :
          /\ call' = [op |-> "classify", words |-> words, images |-> images]
          /\ ret' = classify(words, images, 1, page_height)
    /\ UNCHANGED <<threshold, page_height, tables_checked, total_tables,
                   total_confidence, command>>

GroupWordsToLines ==
    /\ call.op = "none"
    /\ \E words \in BoundedSeqs(PageWords, MaxPageWords) :
          /\ call' = [op |-> "_group_words_to_lines", words |-> words]
          /\ ret' = _group_words_to_lines(words)
    /\ UNCHANGED <<threshold, page_height, tables_checked, total_tables,
                   total_confidence, command>>

NextPage == Classify \/ GroupWordsToLines

SpecPage == InitPage /\ [][NextPage]_vars

-----------------------------------------------------------------------------
(* Operations of the reporter                                              *)

InitReporter == InitObjects /\ InitCall

\* the reporter object
Self == Reporter(tables_checked, total_tables, total_confidence)

\* the reporter is idle or has returned from its last call; `reported` keeps
\* the arguments of the report_table calls made so far
ReporterIdle == call.op \in {"none", "report_table", "get_metrics"}

ReportTable ==
    /\ ReporterIdle
    /\ Len(call.reported) < MaxTables
    /\ \E table_info \in TableInfos :
          LET after == report_table(Self, table_info)
          IN  /\ tables_checked' = after.tables_checked
              /\ total_tables' = after.total_tables
              /\ total_confidence' = after.total_confidence
              /\ call' = [op |-> "report_table",
                          reported |-> Append(call.reported, table_info)]
              /\ ret' = None
    /\ UNCHANGED <<threshold, page_height, command>>

GetMetrics ==
    /\ ReporterIdle
    /\ call' = [op |-> "get_metrics", reported |-> call.reported]
    /\ ret' = get_metrics(Self)
    /\ UNCHANGED <<threshold, page_height, tables_checked, total_tables,
                   total_confidence, command>>

NextReporter == ReportTable \/ GetMetrics

SpecReporter == InitReporter /\ [][NextReporter]_vars

-----------------------------------------------------------------------------
(* Operations of the converter                                             *)

InitConverter == InitObjects /\ InitCall

Extract ==
    /\ call.op = "none"
    /\ \E page \in PdfPages :
          /\ call' = [op |-> "extract", page |-> page]
          /\ ret' = extract(page, 1, threshold)
    /\ UNCHANGED <<threshold, page_height, tables_checked, total_tables,
                   total_confidence, command>>

ClassifyPage ==
    /\ call.op = "none"
    /\ \E page \in PdfPages :
          /\ call' = [op |-> "classify_page", page |-> page]
          /\ ret' = classify_page(page, 1, page_height)
    /\ UNCHANGED <<threshold, page_height, tables_checked, total_tables,
                   total_confidence, command>>

\* convert() may be called again on the same converter; `runs` counts the calls
Convert ==
    /\ call.op \in {"none", "convert"}
    /\ call.op = "convert" => call.runs < MaxRuns
    /\ \E pdf \in Pdfs :
          \E done \in {convert(Self, pdf, page_height, threshold)} :
              /\ tables_checked' = done.self.tables_checked
              /\ total_tables' = done.self.total_tables
              /\ total_confidence' = done.self.total_confidence
              /\ call' = [op |-> "convert", pdf |-> pdf,
                          runs |-> IF call.op = "convert" THEN call.runs + 1 ELSE 1]
              /\ ret' = [raised |-> done.raised]
    /\ UNCHANGED <<threshold, page_height, command>>

NextConverter == Extract \/ ClassifyPage \/ Convert

SpecConverter == InitConverter /\ [][NextConverter]_vars

-----------------------------------------------------------------------------
(* The convert command of the CLI, step by step                            *)

InitCli == InitObjects /\ InitCall

\* `convert PDF_PATH --confidence C`: click rejects a path that does not
\* exist, the command rejects a confidence outside [0, 100] and otherwise
\* constructs the DatasheetConverter, which makes its QualityReporter
CliConvert ==
    /\ pc = "idle"
    /\ call.op = "none"
    /\ \E confidence \in Confidences, pdf \in Documents :
          /\ call' = [op |-> "convert_command", confidence |-> confidence,
                      pdf |-> pdf, processed |-> <<>>, written |-> FALSE]
          /\ IF ~pdf.exists
             THEN /\ pc' = "exited"
                  /\ ret' = [exit_code |-> 2, err |-> "Error: Invalid value for 'PDF_PATH'"]
                  /\ converter' = converter
             ELSE IF InvalidConfidence(confidence)
             THEN /\ pc' = "exited"
                  /\ ret' = [exit_code |-> 1,
                             err |-> "Error: Confidence threshold must be between 0-100"]
                  /\ converter' = converter
             ELSE /\ pc' = "convert"
                  /\ ret' = None
                  /\ converter' = [constructed |-> TRUE, confidence_threshold |-> confidence]
    /\ UNCHANGED <<threshold, page_height, tables_checked, total_tables,
                   total_confidence, pdf_parser, page_number, content_parts, exception>>

\* convert(): PDFParser(self.pdf_path) and open(), then the DocumentBuilder
Open ==
    /\ pc = "convert"
    /\ IF call.pdf.opens
       THEN /\ pdf_parser' = [created |-> TRUE, pdf |-> "open", close_calls |-> 0]
            /\ pc' = "pages"
            /\ exception' = FALSE
       ELSE /\ pdf_parser' = [created |-> TRUE, pdf |-> None, close_calls |-> 0]
            /\ pc' = "finally"
            /\ exception' = TRUE
    /\ page_number' = 0
    /\ content_parts' = <<>>
    /\ UNCHANGED <<threshold, page_height, tables_checked, total_tables,
                   total_confidence, converter, call, ret>>

\* one turn of `for page_num in range(page_count)`: _process_page(page_num).
\* classify() may raise; the TableExtractor made after it creates the
\* ConfidenceScorer; the parts and the table summaries are added, up to the
\* first table add_table cannot render, if there is one.
ProcessPage ==
    /\ pc = "pages"
    /\ page_number < Len(call.pdf.pages)
    /\ \E page \in {call.pdf.pages[page_number + 1]} :
       \E blocks \in {classify_page(page, page_number + 1, page_height)} :
          IF blocks.raised
          THEN /\ exception' = TRUE
               /\ pc' = "finally"
               /\ UNCHANGED <<threshold, tables_checked, total_tables, total_confidence,
                              page_number, content_parts, call>>
          ELSE \E thr \in {Ceiling(converter.confidence_threshold)} :
               \E tables \in {extract(page, page_number + 1, thr).value} :
               \E failing \in {{ k \in DOMAIN tables :
                                    table_to_markdown(tables[k].data, <<"T">>,
                                                      tables[k].needs_manual_check,
                                                      tables[k].uncertain_cells).raised }} :
               \E added \in {IF failing = {} THEN tables
                              ELSE SubSeq(tables, 1,
                                          (CHOOSE k \in failing :
                                               \A l \in failing : k <= l) - 1)} :
               \E after \in {_process_content_blocks(Self, added, page_number + 1)} :
                  /\ threshold' = thr
                  /\ tables_checked' = after.tables_checked
                  /\ total_tables' = after.total_tables
                  /\ total_confidence' = after.total_confidence
                  /\ IF failing = {}
                     THEN /\ content_parts' =
                                 content_parts
                                     \o ContentParts(blocks.value, tables,
                                                     extract_images(page.images,
                                                                    page_number + 1),
                                                     page_number + 1)
                          /\ page_number' = page_number + 1
                          /\ call' = [call EXCEPT !.processed = Append(@, page_number)]
                          /\ UNCHANGED <<pc, exception>>
                     ELSE /\ content_parts' =
                                 content_parts
                                     \o ContentParts(blocks.value, added, <<>>,
                                                     page_number + 1)
                          /\ exception' = TRUE
                          /\ pc' = "finally"
                          /\ UNCHANGED <<page_number, call>>
    /\ UNCHANGED <<page_height, converter, pdf_parser, ret>>

\* after the last page: document_builder.build() and the write of
\* datasheet.md, which succeeds or raises
Save ==
    /\ pc = "pages"
    /\ page_number = Len(call.pdf.pages)
    /\ \E written \in BOOLEAN :
          /\ exception' = ~written
          /\ call' = [call EXCEPT !.written = written]
    /\ pc' = "finally"
    /\ UNCHANGED <<threshold, page_height, tables_checked, total_tables,
                   total_confidence, converter, pdf_parser, page_number,
                   content_parts, ret>>

\* close() as the last statement of the try body instead of in `finally`
Close_after_success_only ==
    /\ pc = "finally"
    /\ pdf_parser' =
           IF pdf_parser.created /\ ~exception
           THEN [pdf_parser EXCEPT !.pdf = IF @ = "open" THEN "closed" ELSE @,
                                   !.close_calls = @ + 1]
           ELSE pdf_parser
    /\ pc' = IF exception THEN "raised" ELSE "returned"
    /\ UNCHANGED <<threshold, page_height, tables_checked, total_tables,
                   total_confidence, converter, page_number, content_parts,
                   exception, call, ret>>

\* finally: `if self.pdf_parser: self.pdf_parser.close()`, and close() closes
\* the file when there is one; then convert() returns or re-raises
Close ==
    /\ pc = "finally"
    /\ pdf_parser' =
           IF pdf_parser.created
           THEN [pdf_parser EXCEPT !.pdf = IF @ = "open" THEN "closed" ELSE @,
                                   !.close_calls = @ + 1]
           ELSE pdf_parser
    /\ pc' = IF exception THEN "raised" ELSE "returned"
    /\ UNCHANGED <<threshold, page_height, tables_checked, total_tables,
                   total_confidence, converter, page_number, content_parts,
                   exception, call, ret>>

\* the command after converter.convert(): the success message, or
\* `except Exception`, the failure message and sys.exit(1)
Exit ==
    /\ pc \in {"returned", "raised"}
    /\ ret' = IF pc = "returned" THEN [exit_code |-> 0, err |-> ""]
              ELSE [exit_code |-> 1, err |-> "Conversion failed"]
    /\ pc' = "exited"
    /\ UNCHANGED <<threshold, page_height, tables_checked, total_tables,
                   total_confidence, converter, pdf_parser, page_number,
                   content_parts, exception, call>>

NextCli == CliConvert \/ Open \/ ProcessPage \/ Save \/ Close \/ Exit

SpecCli == InitCli /\ [][NextCli]_vars

\* add_table for a table of _process_table: the cleaned grid, the caption and
\* what the scorer said about it are rendered
TableToMarkdown ==
    /\ call.op = "none"
    /\ \E raw \in GridsUpTo(RenderCells, MaxRawSize) :
       \E table \in {_process_table(raw, 0, 1, threshold)} :
          /\ table # NoTable
          /\ call' = [op |-> "table_to_markdown", table_data |-> table.data,
                      manual_check |-> table.needs_manual_check,
                      uncertain_cells |-> table.uncertain_cells]
          /\ ret' = table_to_markdown(table.data, <<"T", "a", "b", "l", "e", " ", "1", "-", "0">>,
                                      table.needs_manual_check, table.uncertain_cells)
    /\ UNCHANGED <<threshold, page_height, tables_checked, total_tables,
                   total_confidence, command>>

NextRender == TableToMarkdown

SpecRender == InitCli /\ [][NextRender]_vars

\* a conversion by the command, or one table post-processed on its own
NextRecorded == NextCli \/ ProcessTable

SpecRecorded == InitCli /\ [][NextRecorded]_vars

-----------------------------------------------------------------------------
(* The core operations, each called on its own                             *)

InitCore == InitObjects /\ InitCall

NextCore ==
    \/ Classify
    \/ GroupWordsToLines
    \/ ProcessTable
    \/ ScoreTable
    \/ AnalyzeTableComplexity

SpecCore == InitCore /\ [][NextCore]_vars

-----------------------------------------------------------------------------
(* The whole model                                                         *)

Init == InitScorer /\ InitCall

Next ==
    \/ ScoreTable
    \/ NeedsManualCheck
    \/ ProcessTable
    \/ ReprocessTable
    \/ ClassifyTextType
    \/ ExtractHeadingLevel
    \/ ExtractTextBlocks
    \/ IsFooter
    \/ Classify
    \/ ReportTable
    \/ GetMetrics
    \/ Extract
    \/ ClassifyPage
    \/ Convert
    \/ Detect
    \/ GroupWordsToLines
    \/ AnalyzeTableComplexity
    \/ ExtractLevel
    \/ TableToMarkdown
    \/ CliConvert
    \/ Open
    \/ ProcessPage
    \/ Save
    \/ Close
    \/ Exit

Spec == Init /\ [][Next]_vars

-----------------------------------------------------------------------------
(* Properties of the scorer                                                *)

\* C1: needs_manual_check returns true exactly when rows > 20, or cols > 6,
\* or flask < 80, or the uncertain-cell ratio > 0.5 (a missing rows or cols
\* counts as 0); so each trigger alone suffices, and rows = 20, cols = 6,
\* flask = 80, ratio = 0.5 together give false.
C1_ManualCheckIffAnyTrigger ==
    call.op = "needs_manual_check" =>
        LET rows == IF "rows" \in DOMAIN call.complexity
                    THEN call.complexity.rows ELSE 0
            cols == IF "cols" \in DOMAIN call.complexity
                    THEN call.complexity.cols ELSE 0
        IN  ret <=> \/ rows > 20
                    \/ cols > 6
                    \/ call.flask[1] < 80 * call.flask[2]
                    \/ 2 * call.uncertain_ratio[1] > call.uncertain_ratio[2]

\* C1 witness: 21 rows x 1 column, flask 100, ratio 0 is flagged.
C1_Witness ==
    /\ call.op = "needs_manual_check"
    /\ call.complexity = [rows |-> 21, cols |-> 1]
    /\ call.flask = Num(100)
    /\ call.uncertain_ratio = Num(0)
    /\ ret = TRUE

\* the score the scorer's contract gives a cell: 0 when it is empty after
\* trimming, 20 when it holds "...", "(continued)" or "(Continued)" or ends
\* with < or >, 100 otherwise
ContractScore(cell) ==
    IF \A i \in DOMAIN cell : cell[i] \in WhiteSpace THEN 0
    ELSE IF \/ \E i \in 1..Len(cell) : \E j \in i..Len(cell) :
                  SubSeq(cell, i, j) \in
                      { <<".", ".", ".">>,
                        <<"(", "c", "o", "n", "t", "i", "n", "u", "e", "d", ")">>,
                        <<"(", "C", "o", "n", "t", "i", "n", "u", "e", "d", ")">> }
            \/ cell[Len(cell)] \in {"<", ">"}
         THEN 20
    ELSE 100

\* the coordinates a list of (row, col) pairs names
Coordinates(cells) == { cells[i] : i \in DOMAIN cells }

\* the (row, col) coordinates, counted from 0, at which a list of rows has an
\* entry
Shape(rows) == UNION { { <<r - 1, c - 1>> : c \in DOMAIN rows[r] } : r \in DOMAIN rows }

\* C2: for every grid, ragged ones included, (row, col) is in uncertain_cells
\* exactly when the score of that cell is strictly below the threshold, and
\* cell_confidence has the shape of the grid: an entry for each cell of the
\* grid and no other.
C2_UncertainIffBelowThreshold ==
    call.op = "score_table" =>
        LET grid == call.table_data
        IN  /\ \A rc \in Shape(grid) :
                  rc \in Coordinates(ret.uncertain_cells)
                      <=> ContractScore(grid[rc[1] + 1][rc[2] + 1]) < threshold
            /\ Coordinates(ret.uncertain_cells) \subseteq Shape(grid)
            /\ Shape(ret.cell_confidence) = Shape(grid)

\* the number of cells of a grid and the sum of their scores
RECURSIVE CellCount(_)
CellCount(grid) ==
    IF grid = <<>> THEN 0 ELSE Len(Head(grid)) + CellCount(Tail(grid))

RECURSIVE ScoreSum(_)
ScoreSum(grid) ==
    IF grid = <<>> THEN 0
    ELSE LET row == Head(grid)
             RECURSIVE RowSum(_)
             RowSum(i) == IF i = 0 THEN 0 ELSE ContractScore(row[i]) + RowSum(i - 1)
         IN  RowSum(Len(row)) + ScoreSum(Tail(grid))

\* C3: overall_confidence = (mean of the cell scores + flask) / 2 for every
\* grid with at least one cell; for a grid with no cell it is 0 and no cell is
\* uncertain.
C3_OverallIsMeanAveragedWithFlask ==
    call.op = "score_table" =>
        LET grid == call.table_data
            n    == CellCount(grid)
            o    == ret.overall_confidence
        IN  IF n > 0
            THEN o[1] * 2 * n * call.flask[2]
                     = (ScoreSum(grid) * call.flask[2] + call.flask[1] * n) * o[2]
            ELSE o = Num(0) /\ ret.uncertain_cells = <<>>

-----------------------------------------------------------------------------
(* Properties of the table post-processor                                  *)

\* C8: the post-processor is idempotent: run again on a grid G it returned,
\* it returns exactly G.
C8_ProcessTableIdempotent ==
    (call.op = "_process_table" /\ call.rerun) =>
        /\ ret # NoTable
        /\ ret.data = call.table_data

\* C8 witness: a second run on the grid [["a b"]] that the first run made of
\* [[" a\r\nb ", None], [" \n"]].
C8_Witness ==
    /\ call.op = "_process_table"
    /\ call.rerun
    /\ call.raw = << << <<" ", "a", "\r", "\n", "b", " ">>, NoneCell >>,
                    << <<" ", "\n">> >> >>
    /\ call.table_data = << << <<"a", " ", "b">> >> >>
    /\ ret # NoTable

\* a raw cell that is empty after cleaning: None, or whitespace only
IsBlank(cell) == cell = NoneCell \/ \A i \in DOMAIN cell : cell[i] \in WhiteSpace

\* the raw rows with a cell that is not blank
DataRows(raw) == { r \in DOMAIN raw : \E c \in DOMAIN raw[r] : ~IsBlank(raw[r][c]) }

\* the index of the last column in which some raw row has a cell that is not
\* blank
LastDataColumn(raw) ==
    LET cols == UNION { { c \in DOMAIN raw[r] : ~IsBlank(raw[r][c]) } : r \in DOMAIN raw }
    IN  CHOOSE c \in cols : \A d \in cols : d <= c

\* C9: the grid returned in 'data' is rectangular, has no row of empty cells
\* only and no null cell, and ends at the last column with data: one row per
\* raw row with data, as wide as the last column in which any row has data
\* (interior empty columns kept), that column holding a non-empty cell; when
\* every row is empty after cleaning the result is None.
C9_CleanGridInvariant ==
    call.op = "_process_table" =>
        LET raw == call.table_data
        IN  IF DataRows(raw) = {}
            THEN ret = NoTable
            ELSE /\ ret # NoTable
                 /\ Len(ret.data) = Cardinality(DataRows(raw))
                 /\ \A r \in DOMAIN ret.data :
                       /\ Len(ret.data[r]) = LastDataColumn(raw)
                       /\ \E c \in DOMAIN ret.data[r] : ret.data[r][c] # <<>>
                       /\ \A c \in DOMAIN ret.data[r] : ret.data[r][c] # NoneCell
                 /\ \E r \in DOMAIN ret.data : ret.data[r][LastDataColumn(raw)] # <<>>

\* C9 witness: [[None, "a", ""], []] becomes [["", "a"]].
C9_Witness ==
    /\ call.op = "_process_table"
    /\ call.table_data = << << NoneCell, <<"a">>, <<>> >>, <<>> >>
    /\ ret # NoTable
    /\ ret.data = << << <<>>, <<"a">> >> >>

-----------------------------------------------------------------------------
(* Properties of the classifier                                            *)

\* the patterns ^\d+\.\s+.+ , ^\d+\.\d+\.\s+.+ and ^\d+\.\d+\.\d+\s+.+ ,
\* by the level each stands for
LevelPattern ==
    << [items |-> << Item(Digits, "+"), Item({"."}, "1"), Item(WhiteSpace, "+"),
                     Item(AnyChar, "+") >>,
        dollar |-> FALSE],
       [items |-> << Item(Digits, "+"), Item({"."}, "1"), Item(Digits, "+"),
                     Item({"."}, "1"), Item(WhiteSpace, "+"), Item(AnyChar, "+") >>,
        dollar |-> FALSE],
       [items |-> << Item(Digits, "+"), Item({"."}, "1"), Item(Digits, "+"),
                     Item({"."}, "1"), Item(Digits, "+"), Item(WhiteSpace, "+"),
                     Item(AnyChar, "+") >>,
        dollar |-> FALSE] >>

\* the text of the words of a line, trimmed
TrimmedLine(words) == Strip(Join([i \in DOMAIN words |-> words[i].text], <<" ">>))

\* C4: when the trimmed text of a line matches ^\d+\.\s+.+ the heading level
\* is 1, ^\d+\.\d+\.\s+.+ 2, ^\d+\.\d+\.\d+\s+.+ 3, whatever the font sizes:
\* _extract_heading_level returns it, and the line becomes one Heading block
\* that stores it.
C4_HeadingLevelFromSectionNumber ==
    /\ call.op = "_extract_heading_level" =>
           \A level \in 1..3 :
               ReMatch(LevelPattern[level], Strip(call.text)) => ret = level
    /\ call.op = "_extract_text_blocks" =>
           \A level \in 1..3 :
               ReMatch(LevelPattern[level], TrimmedLine(call.words)) =>
                   /\ Len(ret) = 1
                   /\ ret[1].type = "heading"
                   /\ ret[1].heading_level = level

\* C4 witness: the line "1. a" in a 16 point font becomes a level-1 heading.
C4_Witness ==
    /\ call.op = "_extract_text_blocks"
    /\ TrimmedLine(call.words) = <<"1", ".", " ", "a">>
    /\ \A i \in DOMAIN call.words : "size" \in DOMAIN call.words[i] /\ call.words[i].size = 16
    /\ Len(ret) = 1
    /\ ret[1].type = "heading"
    /\ ret[1].heading_level = 1

\* C5: _classify_text_type applies its rules first match first: a line that
\* matches a section pattern is a Heading with confidence 0.95, also when the
\* list rule holds for it; List is returned only when no heading rule fired,
\* Paragraph, with empty metadata, only when neither heading nor list rule
\* fired.
C5_FirstMatchWins ==
    call.op = "_classify_text_type" =>
        /\ MatchingPatterns(call.text) # {} =>
               /\ ret.type = "heading"
               /\ DOMAIN ret.metadata = {"confidence"}
               /\ ret.metadata.confidence = <<19, 20>>
        /\ ret.type = "list" =>
               ~_is_heading(call.text, call.words) /\ _is_list(call.text)
        /\ ret.type = "paragraph" =>
               /\ ~_is_heading(call.text, call.words)
               /\ ~_is_list(call.text)
               /\ DOMAIN ret.metadata = {}

\* C5 witness: "1. a" matches ^\d+\.\s+.+ and the list rule, and is a Heading.
C5_Witness ==
    /\ call.op = "_classify_text_type"
    /\ call.text = <<"1", ".", " ", "a">>
    /\ _is_list(call.text)
    /\ ret.type = "heading"

\* y0 in the top or the bottom tenth of the page
InMargin(y0, height) == 10 * y0 < height \/ 10 * y0 > 9 * height

PurelyDigits(text) == text # <<>> /\ \A i \in DOMAIN text : text[i] \in Digits

\* `word`, in any case, then optional whitespace, then a digit, somewhere in
\* the text
NumberAfter(word, text) ==
    \E i \in DOMAIN text : \E j \in (i + Len(word))..Len(text) :
        /\ \A k \in DOMAIN word : text[i + k - 1] \in word[k]
        /\ \A k \in (i + Len(word))..(j - 1) : text[k] \in WhiteSpace
        /\ text[j] \in Digits

Page == << {"p", "P"}, {"a", "A"}, {"g", "G"}, {"e", "E"} >>

\* - <digits> - , with optional whitespace around the digits
DashNumber(text) ==
    /\ Len(text) >= 3
    /\ text[1] = "-"
    /\ text[Len(text)] = "-"
    /\ PurelyDigits(Strip(SubSeq(text, 2, Len(text) - 1)))

\* shorter than 50 characters and entirely upper-case
ShortUpperCase(text) ==
    /\ Len(text) < 50
    /\ \E i \in DOMAIN text : text[i] \in UpperCase
    /\ \A i \in DOMAIN text : text[i] \notin LowerCase

\* C6 as stated: _is_footer(block) is true exactly when y0 lies in the top or
\* bottom 10% of the page and the text is purely digits, or matches the
\* case-insensitive 'page <digits>' pattern, or is '- <digits> -', or is
\* shorter than 50 characters, entirely upper-case and not a Heading.
C6_FooterIffMarginAndRule ==
    call.op = "_is_footer" =>
        LET text == Strip(call.block.content)
        IN  ret <=> /\ InMargin(call.block.bbox[2], page_height)
                    /\ \/ PurelyDigits(text)
                       \/ NumberAfter(Page, text)
                       \/ DashNumber(text)
                       \/ ShortUpperCase(text) /\ call.block.type # "heading"

\* C6 amended: the page-number rule also holds for the CJK word U+9875
\* ("page") followed by digits.
C6_FooterIffMarginAndRuleWithCJK ==
    call.op = "_is_footer" =>
        LET text == Strip(call.block.content)
        IN  ret <=> /\ InMargin(call.block.bbox[2], page_height)
                    /\ \/ PurelyDigits(text)
                       \/ NumberAfter(Page, text)
                       \/ NumberAfter(<< {"U+9875"} >>, text)
                       \/ DashNumber(text)
                       \/ ShortUpperCase(text) /\ call.block.type # "heading"

\* C6 witness: a line of the CJK page word and a number, in the bottom margin,
\* is discarded, and only by the page-number rule.
C6_Witness ==
    /\ call.op = "_is_footer"
    /\ call.block.bbox[2] = 721
    /\ NumberAfter(<< {"U+9875"} >>, call.block.content)
    /\ ~NumberAfter(Page, call.block.content)
    /\ ~PurelyDigits(Strip(call.block.content))
    /\ ~DashNumber(Strip(call.block.content))
    /\ ~ShortUpperCase(Strip(call.block.content))
    /\ ret = TRUE

\* C7: classify() returns the blocks top of the page first: with y0 the
\* distance from the page top, a block that precedes another is not lower on
\* the page.
C7_BlocksTopToBottom ==
    call.op = "classify" =>
        \A i \in DOMAIN ret : \A j \in DOMAIN ret :
            i < j => ret[i].bbox[2] <= ret[j].bbox[2]

-----------------------------------------------------------------------------
(* Properties of the reporter                                              *)

\* the flask values among the recorded arguments, summed as floats in the
\* order of the calls
RECURSIVE FlaskSum(_)
FlaskSum(infos) ==
    IF infos = <<>> THEN FloatZero
    ELSE LET n == Len(infos)
             front == FlaskSum(SubSeq(infos, 1, n - 1))
         IN  IF "flask" \in DOMAIN infos[n] THEN FloatAdd(front, Float(infos[n].flask))
             ELSE front

ManualChecks(infos) ==
    Cardinality({i \in DOMAIN infos :
                    /\ "needs_manual_check" \in DOMAIN infos[i]
                    /\ infos[i].needs_manual_check})

\* what get_metrics() returns after the calls report_table(infos[1]), ...
MetricsContract ==
    call.op = "get_metrics" =>
        LET n == Len(call.reported)
        IN  /\ ret.total_tables = n
            /\ ret.manual_check_tables = ManualChecks(call.reported)
            /\ n > 0 =>
                   /\ ret.manual_check_ratio = Frac(ManualChecks(call.reported), n)
                   /\ ret.avg_confidence = FloatDiv(FlaskSum(call.reported), n)
            /\ n = 0 =>
                   /\ ret.manual_check_tables = 0
                   /\ ret.manual_check_ratio = Num(0)
                   /\ ret.avg_confidence = FloatZero

\* a step that is a get_metrics() call leaves the accumulated state alone
MetricsReadOnly ==
    call'.op = "get_metrics" =>
        UNCHANGED <<tables_checked, total_tables, total_confidence>>

\* C10: after any sequence of report_table calls get_metrics() returns
\* total_tables = the number of calls, manual_check_tables = the number of
\* recorded tables that need a manual check, manual_check_ratio =
\* manual_check_tables / total_tables and avg_confidence = the sum of the
\* recorded flask values / total_tables; with nothing recorded all four are 0;
\* and get_metrics() changes none of the accumulated state.
C10_MetricsFromRecordedTables == []MetricsContract /\ [][MetricsReadOnly]_vars

\* C10 witness: get_metrics() after three calls, one without a flask value,
\* at least one needing a manual check and one not.
C10_Witness ==
    /\ call.op = "get_metrics"
    /\ Len(call.reported) = 3
    /\ \E i \in 1..3 : "flask" \notin DOMAIN call.reported[i]
    /\ ret.manual_check_tables \in 1..2
    /\ ret.total_tables = 3

-----------------------------------------------------------------------------
(* Properties of the converter                                             *)

\* QualityReporter() as __init__ leaves it
EmptyReporter == Reporter(<<>>, 0, FloatZero)

\* C11: the quality metrics are reset per document: after any sequence of
\* convert() calls on one converter the metrics are those of the tables of
\* the most recent conversion alone, as if it had started from an empty
\* aggregate.
C11_MetricsResetPerDocument ==
    call.op = "convert" =>
        get_metrics(Self)
            = get_metrics(convert(EmptyReporter, call.pdf, page_height, threshold).self)

\* some page's extraction primitive raises in a document that opens
ExtractionFails(pdf) ==
    /\ pdf.opens
    /\ \E i \in DOMAIN pdf.pages :
          pdf.pages[i].extract_words.raised \/ pdf.pages[i].extract_tables.raised

\* C12: a failure of the extraction primitive is never swallowed: when the
\* page's word or table extraction raises, classify(), TableExtractor.extract()
\* and convert() raise too, instead of returning a result.
C12_ExtractionFailureReachesCaller ==
    /\ call.op = "classify_page" /\ call.page.extract_words.raised => ret.raised
    /\ call.op = "extract" /\ call.page.extract_tables.raised => ret.raised
    /\ call.op = "convert" /\ ExtractionFails(call.pdf) => ret.raised

-----------------------------------------------------------------------------
(* Properties of heading and list recognition                              *)

\* the structural heading patterns: the three numbered forms and ^[A-Z][A-Z\s\d]+$
StructuralPatterns ==
    { LevelPattern[level] : level \in 1..3 }
        \cup { [items |-> << Item(UpperCase, "1"),
                             Item(UpperCase \cup WhiteSpace \cup Digits, "+") >>,
                dollar |-> TRUE] }

NoStructuralPattern(text) == \A pattern \in StructuralPatterns : ~ReMatch(pattern, text)

\* every word carries a font size
AllSized(words) == words # <<>> /\ \A i \in DOMAIN words : "size" \in DOMAIN words[i]

RECURSIVE SizeTotal(_)
SizeTotal(words) == IF words = <<>> THEN 0 ELSE Head(words).size + SizeTotal(Tail(words))

\* the mean font size of the words is more than n, at least n
MeanSizeAbove(words, n) == SizeTotal(words) > n * Len(words)

MeanSizeAtLeast(words, n) == SizeTotal(words) >= n * Len(words)

\* >=20 -> 1, >=16 -> 2, >=14 -> 3, else 4
LevelOfMeanSize(words) ==
    IF MeanSizeAtLeast(words, 20) THEN 1
    ELSE IF MeanSizeAtLeast(words, 16) THEN 2
    ELSE IF MeanSizeAtLeast(words, 14) THEN 3
    ELSE 4

LevelOfSize(font_size) ==
    IF font_size >= 20 THEN 1
    ELSE IF font_size >= 16 THEN 2
    ELSE IF font_size >= 14 THEN 3
    ELSE 4

\* C13: a line that no structural heading pattern matches and whose mean font
\* size exceeds 14 is a Heading with confidence 0.7 and the level estimated
\* from the font size (>=20: 1, >=16: 2, >=14: 3, else 4), in the Heading
\* block of the classifier as well as in the result of HeadingDetector.detect.
C13_FontHeadingConfidenceAndLevel ==
    /\ call.op = "_extract_text_blocks" =>
           ( /\ AllSized(call.words)
             /\ NoStructuralPattern(TrimmedLine(call.words))
             /\ MeanSizeAbove(call.words, 14)
             => /\ Len(ret) = 1
                /\ ret[1].type = "heading"
                /\ ret[1].metadata.confidence = Frac(7, 10)
                /\ ret[1].heading_level = LevelOfMeanSize(call.words) )
    /\ call.op = "detect" =>
           ( NoStructuralPattern(Strip(call.text)) /\ call.font_size > 14
             => ret = [level |-> LevelOfSize(call.font_size),
                       text |-> Strip(call.text),
                       confidence |-> Frac(7, 10)] )

\* C14: a line that no structural heading pattern matches and whose words
\* have a mean font size of at most 14, or carry no font size, is classified
\* Paragraph or List by _classify_text_type, never Heading.
C14_SmallFontNeverHeading ==
    call.op = "_classify_text_type" =>
        ( /\ NoStructuralPattern(Strip(call.text))
          /\ \/ \A i \in DOMAIN call.words : "size" \notin DOMAIN call.words[i]
             \/ AllSized(call.words) /\ ~MeanSizeAbove(call.words, 14)
          => ret.type \in {"paragraph", "list"} )

\* C14 witness: an unnumbered line set in 14 points throughout is a Paragraph.
C14_Witness ==
    /\ call.op = "_classify_text_type"
    /\ NoStructuralPattern(Strip(call.text))
    /\ AllSized(call.words)
    /\ \A i \in DOMAIN call.words : call.words[i].size = 14
    /\ ret.type = "paragraph"

\* N.M <text>, no dot after M: ^\d+\.\d+\s+.+
TwoNumberPattern ==
    [items |-> << Item(Digits, "+"), Item({"."}, "1"), Item(Digits, "+"),
                  Item(WhiteSpace, "+"), Item(AnyChar, "+") >>,
     dollar |-> FALSE]

\* C15: a line of the form 'N.M <text>' with no dot after M is a level-2
\* heading: the heading rule accepts it whatever the font sizes of its words
\* (so _classify_text_type returns Heading), and _extract_heading_level
\* returns 2.
C15_TwoNumberHeadingLevel2 ==
    /\ call.op = "_classify_text_type" =>
           ( ReMatch(TwoNumberPattern, Strip(call.text)) => ret.type = "heading" )
    /\ call.op = "_extract_heading_level" =>
           ( ReMatch(TwoNumberPattern, Strip(call.text)) => ret = 2 )

\* the numeric list form ^\d+[.)]\s+
NumericForm(text) ==
    ReMatch([items |-> << Item(Digits, "+"), Item({".", ")"}, "1"),
                          Item(WhiteSpace, "+") >>,
             dollar |-> FALSE], text)

\* C16: for a text _classify_text_type classifies as List, `ordered` is true
\* exactly when the trimmed text has the numeric form ^\d+[.)]\s+, also when
\* the text handed in starts with whitespace.
C16_OrderedIffNumericForm ==
    call.op = "_classify_text_type" /\ ret.type = "list" =>
        ( ret.metadata.ordered <=> NumericForm(Strip(call.text)) )

-----------------------------------------------------------------------------
(* Properties of line grouping and of the order of the blocks              *)

\* how many times x occurs in the list s
Occurrences(s, x) == Cardinality({ i \in DOMAIN s : s[i] = x })

\* the anchor of a line: the top of the word of the line met first when the
\* words are walked by ascending top
Anchor(line) == MinOf(line, "top")

\* C17: _group_words_to_lines returns the words, none lost or added, in lines
\* ordered by ascending anchor top, each line ordered by ascending x0; a word
\* is in a line iff its top is within 5 of the line's anchor, a word further
\* away opening the next line; no word gives no line.
C17_LinesByAnchorTolerance ==
    call.op = "_group_words_to_lines" =>
        /\ call.words = <<>> => ret = <<>>
        /\ \A i \in DOMAIN call.words :
               Occurrences(Flatten(ret), call.words[i])
                   = Occurrences(call.words, call.words[i])
        /\ Len(Flatten(ret)) = Len(call.words)
        /\ \A k \in DOMAIN ret :
               /\ ret[k] # <<>>
               /\ \A i \in DOMAIN ret[k] : \A j \in DOMAIN ret[k] :
                      i < j => ret[k][i].x0 <= ret[k][j].x0
               /\ \A i \in DOMAIN ret[k] : ret[k][i].top - Anchor(ret[k]) <= 5
               /\ k < Len(ret) => Anchor(ret[k + 1]) > Anchor(ret[k]) + 5

\* C17 witness: words at tops 100, 104 and 108: the first two share a line,
\* the third, within 5 of the second but not of the anchor, opens a new one.
C17_Witness ==
    /\ call.op = "_group_words_to_lines"
    /\ { call.words[i].top : i \in DOMAIN call.words } = {100, 104, 108}
    /\ Len(ret) = 2
    /\ Len(ret[1]) = 2
    /\ ret[2][1].top = 108

\* all the blocks of the page before the sort: text lines, then images
PageBlocks(words, images) ==
    _extract_text_blocks(words, 1) \o _extract_images(images, 1)

\* the blocks that are not filtered out, by position in blocks
Kept(blocks) == { i \in DOMAIN blocks : ~_is_footer(blocks[i], page_height) }

\* block i comes before block j: higher y0, or the same y0 and earlier
Precedes(blocks, i, j) ==
    \/ blocks[i].bbox[2] > blocks[j].bbox[2]
    \/ blocks[i].bbox[2] = blocks[j].bbox[2] /\ i < j

SameBlock(a, b) == a.type = b.type /\ a = b

\* C18: classify() returns exactly the sorted sequence of the page's text and
\* image blocks without the blocks _is_footer holds for: no other block is
\* dropped, none added or duplicated, the order of the rest is that of the
\* sort, and blocks of equal y0 keep the order they had before it (text
\* lines in grouping order, then images).
C18_SortedThenFilteredStable ==
    call.op = "classify" =>
        LET blocks == PageBlocks(call.words, call.images)
            kept == Kept(blocks)
            rank(i) == 1 + Cardinality({ j \in kept : Precedes(blocks, j, i) })
        IN  /\ Len(ret) = Cardinality(kept)
            /\ \A i \in kept : SameBlock(ret[rank(i)], blocks[i])

\* C18 witness: a text line and an image of the same y0 are both returned,
\* the line first, and a footer block has been removed.
C18_Witness ==
    /\ call.op = "classify"
    /\ Len(ret) < Len(PageBlocks(call.words, call.images))
    /\ \E k \in DOMAIN ret :
          /\ k < Len(ret)
          /\ ret[k].type # "image"
          /\ ret[k + 1].type = "image"
          /\ ret[k].bbox[2] = ret[k + 1].bbox[2]

-----------------------------------------------------------------------------
(* Bounds and monotonicity of the scorer                                   *)

\* C19: for any grid, any threshold of [0, 100] and any flask of [0, 100],
\* the overall_confidence of score_table lies in [0, 100].
C19_OverallConfidenceInRange ==
    call.op = "score_table" =>
        /\ ~RLess(ret.overall_confidence, Num(0))
        /\ ~RLess(Num(100), ret.overall_confidence)

\* C19 witness: a grid with cells, all of them scoring 100, and flask 100
\* reach the upper end of the range.
C19_Witness ==
    /\ call.op = "score_table"
    /\ Flatten(call.table_data) # <<>>
    /\ call.flask = Num(100)
    /\ ret.overall_confidence = Num(100)

-----------------------------------------------------------------------------
(* Coverage and order of the recorded tables                               *)

\* the uncertain cells of the recorded summaries, counted
TotalUncertain(infos) ==
    SumSeq([i \in DOMAIN infos |->
                IF "uncertain_cells" \in DOMAIN infos[i]
                THEN Len(infos[i].uncertain_cells) ELSE 0])

\* rows * cols of the recorded summaries, summed
TotalCells(infos) ==
    SumSeq([i \in DOMAIN infos |->
                IF "complexity" \in DOMAIN infos[i]
                THEN infos[i].complexity.rows * infos[i].complexity.cols ELSE 0])

\* (1 - 0.5 * totalUncertainCells / totalCells) * 100, 100 without cells
CoverageFormula(infos) ==
    IF TotalCells(infos) = 0 THEN Num(100)
    ELSE RSub(Num(100), Frac(50 * TotalUncertain(infos), TotalCells(infos)))

\* C21: after any sequence of report_table calls, with arbitrary
\* uncertain-cell lists and rows/cols, the coverage get_metrics() returns is
\* (1 - 0.5 * totalUncertainCells / totalCells) * 100, 100 when there are no
\* cells, and lies within [0, 100].
C21_CoverageFormulaWithinRange ==
    call.op = "get_metrics" =>
        /\ ret.coverage = CoverageFormula(call.reported)
        /\ ~RLess(ret.coverage, Num(0))
        /\ ~RLess(Num(100), ret.coverage)

\* the formula alone, without the range
C21_CoverageFormulaOnly ==
    call.op = "get_metrics" => ret.coverage = CoverageFormula(call.reported)

\* the reporter after report_table(infos[1]), report_table(infos[2]), ...
RECURSIVE Recorded(_)
Recorded(infos) ==
    IF infos = <<>> THEN EmptyReporter
    ELSE report_table(Recorded(SubSeq(infos, 1, Len(infos) - 1)), infos[Len(infos)])

\* the summaries in the order p
Reordered(infos, p) == [i \in DOMAIN infos |-> infos[p[i]]]

\* C22: the quality metrics are order-independent: the summaries recorded so
\* far, recorded in any other order, give the same get_metrics() values
\* (total, manual-check count and ratio, average accuracy, coverage).
C22_MetricsOrderIndependent ==
    call.op = "get_metrics" =>
        \A p \in Permutations(DOMAIN call.reported) :
            get_metrics(Recorded(Reordered(call.reported, p))) = ret

\* the same for the metrics that are sums of integers
C22_CountsOrderIndependent ==
    call.op = "get_metrics" =>
        \A p \in Permutations(DOMAIN call.reported) :
            LET other == get_metrics(Recorded(Reordered(call.reported, p)))
            IN  /\ other.total_tables = ret.total_tables
                /\ other.manual_check_tables = ret.manual_check_tables
                /\ other.manual_check_ratio = ret.manual_check_ratio
                /\ other.coverage = ret.coverage

-----------------------------------------------------------------------------
(* The command line                                                        *)

\* C23: a confidence outside [0, 100] is rejected by the command: the exit
\* code is not zero, an error message is written and no converter is
\* constructed; so a converter that exists holds a confidence within
\* [0, 100], and so does every ConfidenceScorer a conversion creates.
C23_InvalidConfidenceRejected ==
    LET outside(c) == ~(Leq(Num(0), c) /\ Leq(c, Num(100)))
    IN  /\ call.op = "convert_command" /\ outside(call.confidence)
               => /\ pc = "exited"
                  /\ ret.exit_code # 0
                  /\ ret.err # ""
                  /\ ~converter.constructed
                  /\ ~pdf_parser.created
                  /\ call.processed = <<>>
        /\ call.op = "convert_command" /\ converter.constructed
               => /\ ~outside(converter.confidence_threshold)
                  /\ call.processed # <<>> => threshold \in 0..100

C23_Rejected ==
    /\ call.op = "convert_command"
    /\ call.pdf.exists
    /\ call.confidence \in {Num(-1), Frac(201, 2), NaN}
    /\ pc = "exited"

C23_ScorerCreated ==
    /\ call.op = "convert_command"
    /\ converter.constructed
    /\ call.processed # <<>>
    /\ converter.confidence_threshold = Frac(199, 2)

-----------------------------------------------------------------------------
(* Empty inputs                                                            *)

-----------------------------------------------------------------------------
(* The conversion, step by step                                            *)

\* C25: convert() always releases the PDF: when it has returned or raised,
\* after success, a failure to open, a failure in a page or a failure to
\* write, close() has been called on the parser it created and no file is
\* left open; it returns only when the file opened, every page was
\* processed and the output was written, and raises otherwise, which the
\* command reports with a non-zero exit code.
C25_PdfAlwaysReleased ==
    LET finished == pc \in {"returned", "raised"} \/ (pc = "exited" /\ converter.constructed)
        succeeded == /\ call.pdf.opens
                     /\ Len(call.processed) = Len(call.pdf.pages)
                     /\ call.written
    IN  /\ finished => /\ pdf_parser.created
                       /\ pdf_parser.close_calls = 1
                       /\ pdf_parser.pdf # "open"
                       /\ call.pdf.opens => pdf_parser.pdf = "closed"
                       /\ exception <=> ~succeeded
        /\ pc = "returned" => ~exception
        /\ pc = "raised" => exception
        /\ pc = "exited" /\ converter.constructed => (ret.exit_code = 0 <=> succeeded)
        /\ pdf_parser.created /\ pdf_parser.pdf = "open" => pc \in {"pages", "finally"}

C25_RaisedInSecondPage ==
    /\ pc = "raised"
    /\ Len(call.processed) = 1
    /\ Len(call.pdf.pages) = 2
    /\ pdf_parser.pdf = "closed"
    /\ pdf_parser.close_calls = 1

\* C26: convert() processes the pages one after the other: the pages
\* processed so far are 0, 1, ... in ascending order, each once, and all of
\* them when convert() returns; in the document the parts of a page precede
\* those of the next page, and within a page the text blocks come first, in
\* the order classify() returned them, then the tables, then the images.
C26_PagesInOrder ==
    call.op = "convert_command" /\ pdf_parser.created =>
        LET rank(part) == IF part.kind = "table" THEN 2
                          ELSE IF part.kind = "image" THEN 3 ELSE 1
        IN  /\ call.processed = [i \in 1..page_number |-> i - 1]
            /\ page_number <= Len(call.pdf.pages)
            /\ pc = "returned" => page_number = Len(call.pdf.pages)
            /\ \A i \in DOMAIN content_parts :
                   \/ content_parts[i].page \in 1..page_number
                   \/ exception /\ content_parts[i].page = page_number + 1
            /\ \A i, j \in DOMAIN content_parts :
                   i < j => \/ content_parts[i].page < content_parts[j].page
                            \/ /\ content_parts[i].page = content_parts[j].page
                               /\ rank(content_parts[i]) <= rank(content_parts[j])
            /\ \A p \in (1..page_number)
                       \cup { content_parts[i].page : i \in DOMAIN content_parts } :
                   LET blocks == classify_page(call.pdf.pages[p], p, page_height).value
                       texts == SelectSeq(blocks, LAMBDA b : b.type \in BlockTypes)
                       added == SelectSeq(content_parts,
                                          LAMBDA part : part.page = p /\ rank(part) = 1)
                   IN  /\ Len(added) = Len(texts)
                       /\ \A i \in DOMAIN texts :
                              /\ added[i].kind = texts[i].type
                              /\ IF texts[i].type = "list"
                                 THEN added[i].items = texts[i].list_items
                                 ELSE added[i].text = texts[i].content

C26_TwoFullPages ==
    /\ pc = "returned"
    /\ page_number = 2
    /\ call.processed = <<0, 1>>
    /\ Len(content_parts) = 8
    /\ \E i \in 1..7 : content_parts[i].page = 1 /\ content_parts[i].kind = "image"
                            /\ content_parts[i + 1].page = 2
                            /\ content_parts[i + 1].kind \in BlockTypes
    /\ \E i \in 1..7 : content_parts[i].kind \in BlockTypes
                            /\ content_parts[i + 1].kind = "table"
                            /\ content_parts[i + 1].page = content_parts[i].page

-----------------------------------------------------------------------------
(* The two heading-level implementations                                   *)

\* C27: HeadingDetector.extract_level and
\* ContentBlockClassifier._extract_heading_level give the same level for
\* every text, although they try the section patterns in opposite orders:
\* no text matches more than one of the four patterns.
C27_HeadingLevelsAgree ==
    /\ call.op = "extract_level" => ret = _extract_heading_level(call.text)
    /\ call.op = "_extract_heading_level" => ret = extract_level(call.text)
    /\ call.op \in {"extract_level", "_extract_heading_level"}
          => /\ Cardinality(MatchingPatterns(call.text)) <= 1
             /\ Cardinality({ k \in DOMAIN HeadingDetector_SECTION_PATTERNS :
                                 ReMatch(HeadingDetector_SECTION_PATTERNS[k],
                                         Strip(call.text)) }) <= 1

C27_LevelThreeByBoth ==
    /\ call.op = "extract_level"
    /\ call.text = <<" ", "1", ".", "2", ".", "3", " ", "a", " ">>
    /\ ret = 3
    /\ _extract_heading_level(call.text) = 3

-----------------------------------------------------------------------------
(* Lines and the text blocks made of them                                  *)

\* C28: _group_words_to_lines partitions its input: every word is in exactly
\* one line and no line is empty; the top of every word of a line lies in
\* [anchor, anchor + 5], the anchor being the smallest top of the line; the
\* anchors of consecutive lines differ by more than 5; so the text blocks of
\* a page, whose y0 is the anchor of their line, have pairwise distinct y0.
C28_LinesPartitionWords ==
    /\ call.op = "_group_words_to_lines" =>
           /\ Len(Flatten(ret)) = Len(call.words)
           /\ \A i \in DOMAIN call.words :
                  Occurrences(Flatten(ret), call.words[i])
                      = Occurrences(call.words, call.words[i])
           /\ \A k \in DOMAIN ret :
                  /\ ret[k] # <<>>
                  /\ \A i \in DOMAIN ret[k] :
                         /\ Anchor(ret[k]) <= ret[k][i].top
                         /\ ret[k][i].top <= Anchor(ret[k]) + 5
           /\ \A k \in DOMAIN ret : \A l \in DOMAIN ret :
                  k < l => Anchor(ret[l]) - Anchor(ret[k]) > 5
    /\ call.op = "classify" =>
           LET blocks == _extract_text_blocks(call.words, 1)
               lines == _group_words_to_lines(call.words)
           IN  /\ Len(blocks) = Len(lines)
               /\ \A k \in DOMAIN blocks : blocks[k].bbox[2] = Anchor(lines[k])
               /\ \A i \in DOMAIN blocks : \A j \in DOMAIN blocks :
                      i # j => blocks[i].bbox[2] # blocks[j].bbox[2]
               /\ \A i \in DOMAIN ret : \A j \in DOMAIN ret :
                      i # j /\ ret[i].type \in BlockTypes /\ ret[j].type \in BlockTypes
                          => ret[i].bbox[2] # ret[j].bbox[2]

C28_TwoBlocksFromThreeWords ==
    /\ call.op = "classify"
    /\ [i \in DOMAIN call.words |-> call.words[i].top] = <<108, 100, 104>>
    /\ Len(_extract_text_blocks(call.words, 1)) = 2
    /\ { ret[i].bbox[2] : i \in DOMAIN ret } = {100, 108}

-----------------------------------------------------------------------------
(* The uncertain cells of the tables a conversion records                  *)

\* C29: the uncertain_cells of every table _process_table produces, and of
\* every table the converter adds to the document and reports, are
\* (row, col) coordinates of the cleaned grid, each at most once, so there
\* are at most rows * cols of them; so in every state of a conversion the
\* coverage the reporter computes lies in [50, 100].
C29_UncertainCellsWithinGrid ==
    LET valid(cells, rows, cols) ==
            /\ \A k \in DOMAIN cells : /\ cells[k][1] \in 0..(rows - 1)
                                        /\ cells[k][2] \in 0..(cols - 1)
            /\ \A k \in DOMAIN cells : \A l \in DOMAIN cells :
                   k # l => cells[k] # cells[l]
            /\ Len(cells) <= rows * cols
    IN  /\ call.op = "_process_table" /\ ret # NoTable =>
               /\ valid(ret.uncertain_cells, Len(ret.data), Len(ret.data[1]))
               /\ ret.complexity.rows = Len(ret.data)
               /\ \A r \in DOMAIN ret.data : Len(ret.data[r]) = ret.complexity.cols
        /\ call.op = "convert_command" =>
               /\ \A i \in DOMAIN content_parts :
                      content_parts[i].kind = "table" =>
                          valid(content_parts[i].uncertain_cells,
                                Len(content_parts[i].table_data),
                                Len(content_parts[i].table_data[1]))
               /\ \A i \in DOMAIN tables_checked :
                      valid(tables_checked[i].uncertain_cells,
                            tables_checked[i].complexity.rows,
                            tables_checked[i].complexity.cols)
               /\ Leq(Num(50), get_metrics(Self).coverage)
               /\ Leq(get_metrics(Self).coverage, Num(100))

C29_HalfOfTheCellsUncertain ==
    /\ call.op = "convert_command"
    /\ pc = "returned"
    /\ Len(tables_checked) = 2
    /\ \A i \in DOMAIN tables_checked : Len(tables_checked[i].uncertain_cells) = 2
    /\ get_metrics(Self).coverage = Num(75)

-----------------------------------------------------------------------------
(* Rendering of the tables                                                 *)

\* the cells of a rendered line: one less than its column separators
Columns(line) == Cardinality({ i \in DOMAIN line : line[i] = "|" }) - 1

\* C30: for every cleaned grid of _process_table with the uncertain cells
\* the scorer found in it, table_to_markdown does not raise, every line it
\* emits has as many columns as the cleaned grid, there is one line per row
\* of the grid and the separator line, and the grid passed in is unchanged.
C30_RenderedAsCleaned ==
    call.op = "table_to_markdown" =>
        /\ ~ret.raised
        /\ Len(ret.value.lines) = Len(call.table_data) + 1
        /\ \A k \in DOMAIN ret.value.lines :
               Columns(ret.value.lines[k]) = Len(call.table_data[1])
        /\ ret.value.table_data = call.table_data

\* what does hold: when nothing is raised there is one line per row and the
\* separator, and the grid passed in is unchanged
C30_LinesPerRow ==
    call.op = "table_to_markdown" /\ ~ret.raised =>
        /\ Len(ret.value.lines) = Len(call.table_data) + 1
        /\ ret.value.table_data = call.table_data

=============================================================================
